---- MODULE Spec2Model ----
(***************************************************************************)
(* Model of the gemini package's server transaction engine                 *)
(* (src/server.go, src/request.go): the accept loop of Server.Serve, the   *)
(* per-connection goroutine Server.serve with its two deferred calls, and  *)
(* the responseWriter that handlers write through; of its router          *)
(* (src/unnamed/part_002, part_005, part_007): the segment trie behind     *)
(* ServeMux, its registration calls and match; and of the redirect loop    *)
(* of Client.DoContext (src/client.go).                                    *)
(*                                                                         *)
(* Time is counted in milliseconds.  What reaches the peer of a            *)
(* connection is a sequence of tokens: <<"status", code, meta>> for one    *)
(* status line "<code> <meta>\r\n" and <<"body", b>> for one body byte.    *)
(***************************************************************************)
EXTENDS Integers, Sequences, FiniteSets, TLC

\* ---------------------------------------------------------------- bounds

\* Connections that arrive at the listener.
MaxConns == 2
\* Connections whose transaction is followed call by call.
MaxTxConns == 1
\* Calls a handler makes on its ResponseWriter.
MaxCalls == 2
\* Bytes a peer sends as its request.
MaxLineLen == 3
\* Transient Accept errors the listener produces.
MaxTransient == 10
\* Nodes of the route tree, the root included.
MaxNodes == 3
\* Handlers registered in the route tree.
MaxRoutes == 2
\* Segments of a request path given to match.
MaxPathSegs == 3
\* Requests one DoContext call may issue before the model stops following it.
MaxRequests == 7
\* StripPrefix: longest request path and prefix, in bytes
MaxStripLen == 3
\* Response: largest magnitude of a decoded status
MaxStatus == 99

\* ------------------------------------------------------ program constants

StatusInput == 10
StatusSuccess == 20
StatusRedirect == 30
StatusTemporaryFailure == 40
StatusPermanentFailure == 50
StatusCertificateRequired == 60
StatusCGIError == 42
StatusNotFound == 51
statusSentinel == 70
\* the number of earlier requests at which the default policy stops
MaxVia == 5
\* 5 * time.Millisecond and 1 * time.Second, in milliseconds
InitialDelay == 5
MaxDelay == 1000

Conns == 1..MaxConns
TxConns == 1..MaxTxConns

\* The bytes a peer may send: a letter (also a hex digit), '%', '\r', '\n'.
Alphabet == {"a", "%", "CR", "LF"}
HexDigits == {"a"}
\* Control bytes (b < ' ' || b == 0x7f) among the alphabet.
CTLBytes == {"CR", "LF"}

SeqsUpTo(S, n) == UNION {[1..k -> S] : k \in 0..n}

\* What a peer may send before it stops sending.
PeerInputs == SeqsUpTo(Alphabet, MaxLineLen)

\* The arguments handlers pass to WriteStatus and Write.
HandlerStatuses == {<<StatusSuccess, "text/plain">>, <<StatusRedirect, "/x/">>,
                    <<StatusNotFound, "gone">>}
HandlerData == {<< >>, <<"x">>}

\* Response.IsSuccess: StatusSuccess <= status < StatusRedirect.
SuccessBand == StatusSuccess..(StatusRedirect - 1)

\* The values a handler may panic with.
PanicValues == {"ErrAbortHandler", "other"}

VARIABLES
    \* Server.Serve
    servePc,      \* "start", "accept", "sleep", "returned", "panicked", "crashed"
    tempDelay,    \* how long to sleep on accept failure, in ms
    serveErr,     \* the error Serve returned ("nil" while it has not)
    lClosed,      \* the listener l has been closed
    tlsNil,       \* s.TLS == nil
    handlerNil,   \* s.Handler == nil
    run,          \* transient Accept errors since the last successful Accept
    nTransient,   \* transient Accept errors since Serve started
    lastAccept,   \* outcome of the last Accept call: "none", "ok", "temporary", "fatal"
    \* Server.serve, one per connection
    connPc,       \* "pending", "read", "handler", "hung", "after", "defer", "done"
    req,          \* what ReadRequest returned: [err, url]
    writer,       \* the responseWriter: [writtenStatus, writtenMeta, hasWritten]
    rwc,          \* the connection: [closed, sent]
    panicVal,     \* the value the handler panicked with ("none": it did not)
    unwinding,    \* a panic is in flight (not yet recovered)
    dleft,        \* deferred calls of serve still to run
    hcalls,       \* calls the handler has made on the writer
    handlerCalls, \* invocations of s.Handler.ServeGemini
    logged,       \* the deferred function printed "gemini: panic serving"
    warned,       \* WriteStatus printed "Cannot write status multiple times"
    forced,       \* deferred calls of writer.WriteStatus(StatusCGIError, ...)
    \* ServeMux
    tree,         \* the nodes of the trie: path of edges from the root -> node
    RedirectSlash, \* mux.RedirectSlash
    regPanic,     \* the panic of the last registration call, if it panicked
    \* Client.DoContext
    CheckRedirect, \* c.CheckRedirect: "nil" or the name of a custom policy
    cliPc,        \* "idle", "loop", "returned"
    cliReq,       \* r: the URL of the request to issue next
    reqs,         \* the requests made already, oldest first
    resp,         \* the response of the last doRequest
    ret,          \* what DoContext returned: [resp, err]
    issued,       \* calls of doRequest
    policyCalls,  \* calls of checkRedirect
    policyErr,    \* what the last checkRedirect returned
    openConns,    \* connections of the call that are open
    peakConns,    \* the most that were open at once
    \* Client.doRequest
    dqPc,         \* "idle", "started", "recv", "got", "return", "returned"
    ctxDone,      \* ctx.Done() is closed
    doneChan,     \* doneChan is closed
    retChan,      \* the results buffered in retChan, oldest first
    rawConn,      \* "nil", "open", "closed"
    waiterPc,     \* the unit waiting on ctx: "none", "select", "send", "done"
    senderPc,     \* the unit sending the request: "none", "write", "read",
                  \* "send", "done"
    senderVal,    \* the retVal the sending unit is about to send
    answer,       \* what ReadResponse will give once the server has answered
    got,          \* ret: the retVal doRequest received
    dqRet,        \* what doRequest returned
    delivered,    \* the retVals sent on retChan so far, oldest first
    \* StripPrefix
    stripPrefix,  \* the prefix given to StripPrefix
    urlPath,      \* the heap of url.URL values: URL -> its Path
    reqURL,       \* the heap of Request values: Request -> its URL
    spPc,         \* "new", "idle", "handler", "mutated", "done"
    hReq,         \* the Request h was invoked with (0: it was not invoked)
    hPath,        \* the path of that Request when h was invoked
    hCalls,       \* invocations of h
    spWriter,     \* the ResponseWriter of the call
    spConn,       \* its connection
    \* Response
    bandPc,       \* "new", "decoded", "called"
    respStatus,   \* r.Status of the decoded response
    bands         \* the band predicates that answered true for it

serveVars == <<servePc, tempDelay, serveErr, lClosed, run, nTransient, lastAccept>>
configVars == <<tlsNil, handlerNil>>
connVars == <<connPc, req, writer, rwc, panicVal, unwinding, dleft, hcalls,
              handlerCalls, logged, warned, forced>>
serverVars == <<serveVars, configVars, connVars>>
routerVars == <<tree, RedirectSlash, regPanic>>
clientVars == <<CheckRedirect, cliPc, cliReq, reqs, resp, ret, issued,
                policyCalls, policyErr, openConns, peakConns>>
doRequestVars == <<dqPc, ctxDone, doneChan, retChan, rawConn, waiterPc,
                   senderPc, senderVal, answer, got, dqRet, delivered>>
\* The state of the units that stand alone.
stripVars == <<stripPrefix, urlPath, reqURL, spPc, hReq, hPath, hCalls,
               spWriter, spConn>>
bandVars == <<bandPc, respStatus, bands>>
unitVars == <<doRequestVars, stripVars, bandVars>>
\* What the server's steps leave alone besides its own state.
otherVars == <<configVars, routerVars, clientVars, unitVars>>
vars == <<serverVars, routerVars, clientVars, unitVars>>

\* ------------------------------------------------------------- helpers

StatusLine(code, meta) == <<"status", code, meta>>
BodyBytes(data) == [i \in 1..Len(data) |-> <<"body", data[i]>>]
IsStatusLine(tok) == tok[1] = "status"
IsBody(tok) == tok[1] = "body"
StatusLines(sent) == {i \in 1..Len(sent) : IsStatusLine(sent[i])}
BodyPositions(sent) == {i \in 1..Len(sent) : IsBody(sent[i])}

\* ----------------------------------------------------------- request.go

\* Index of the first '\n' of bytes, 0 if there is none.
FirstLF(bytes) ==
    IF \E i \in 1..Len(bytes) : bytes[i] = "LF"
    THEN CHOOSE i \in 1..Len(bytes) :
            bytes[i] = "LF" /\ \A j \in 1..(i - 1) : bytes[j] # "LF"
    ELSE 0

HasSuffixCRLF(line) ==
    Len(line) >= 2 /\ line[Len(line) - 1] = "CR" /\ line[Len(line)] = "LF"

\* url.Parse on the alphabet: a control byte or a '%' that is not followed
\* by two hex digits is an error.
UrlParseOk(s) ==
    /\ \A i \in 1..Len(s) : s[i] \notin CTLBytes
    /\ \A i \in 1..Len(s) :
          s[i] = "%" => /\ i + 2 <= Len(s)
                        /\ s[i + 1] \in HexDigits
                        /\ s[i + 2] \in HexDigits

NoRequest == [err |-> "unread", url |-> << >>]

ReadRequest(bytes) ==
    LET n == FirstLF(bytes)
        line == SubSeq(bytes, 1, n)
        trimmed == SubSeq(line, 1, Len(line) - 2)
    IN  IF n = 0 THEN [err |-> "EOF", url |-> << >>]
        ELSE IF ~HasSuffixCRLF(line)
        THEN [err |-> "malformed status line", url |-> << >>]
        ELSE IF ~UrlParseOk(trimmed)
        THEN [err |-> "parse", url |-> << >>]
        ELSE [err |-> "nil", url |-> trimmed]

\* ------------------------------------------------------------ server.go

\* A Write on the connection: after Close it fails and sends nothing.
ConnWrite(cn, toks) ==
    IF cn.closed THEN cn ELSE [cn EXCEPT !.sent = @ \o toks]

newResponseWriter == [writtenStatus |-> 0, writtenMeta |-> "", hasWritten |-> FALSE]

newConn == [closed |-> FALSE, sent |-> << >>]

\* The result of a writer call: the writer, the connection, and whether
\* the call printed the "Cannot write status multiple times" warning.
Result(w, cn, warn) == [w |-> w, cn |-> cn, warn |-> warn]

\* WriteStatus without the hasWritten check.
WriteStatusUnguarded(w, cn, statusCode, meta) ==
    Result([writtenStatus |-> statusCode, writtenMeta |-> meta,
            hasWritten |-> TRUE],
           ConnWrite(cn, <<StatusLine(statusCode, meta)>>),
           FALSE)

WriteStatus(w, cn, statusCode, meta) ==
    IF w.hasWritten
    THEN Result(w, cn, TRUE)
    ELSE Result([writtenStatus |-> statusCode, writtenMeta |-> meta,
                 hasWritten |-> TRUE],
                ConnWrite(cn, <<StatusLine(statusCode, meta)>>),
                FALSE)

\* Write without the implicit WriteStatus.
WriteNoImplicit(w, cn, data) ==
    Result(w, ConnWrite(cn, BodyBytes(data)), FALSE)

Write(w, cn, data) ==
    LET s == IF ~w.hasWritten
             THEN WriteStatus(w, cn, StatusSuccess, "text/gemini")
             ELSE Result(w, cn, FALSE)
    IN  Result(s.w, ConnWrite(s.cn, BodyBytes(data)), s.warn)

\* NotFound that writes no status.
NotFoundSilent(w, cn) == Result(w, cn, FALSE)

NotFound(w, cn) == WriteStatus(w, cn, StatusNotFound, "not found")

\* The deferred calls of serve, in the order the defer statements run: the
\* last registered runs first.
ServeDefersSwapped == <<"close", "recover">>

ServeDefers == <<"recover", "close">>

\* The condition under which the deferred function logs the panic.
LogsPanic(pv) == pv # "none" /\ pv # "ErrAbortHandler"

\* The condition under which the deferred function forces a status.
ForcesStatus(w, pv) == ~w.hasWritten

\* The next delay without the cap.
NextDelayUncapped(d) == IF d = 0 THEN InitialDelay ELSE d * 2

\* The next delay after a transient Accept error.
NextDelay(d) ==
    LET n == IF d = 0 THEN InitialDelay ELSE d * 2
    IN  IF n > MaxDelay THEN MaxDelay ELSE n

\* The loop calling s.serve(rwc) itself: it is back at l.Accept() only
\* when serve has returned.
AtAcceptAfterServe ==
    servePc = "accept" /\ \A c \in Conns : connPc[c] \in {"pending", "done"}

\* The loop is at l.Accept(): "go s.serve(rwc)" does not wait for serve.
AtAccept == servePc = "accept"

Running == servePc # "crashed"

\* ------------------------------------------------- router: utilities
\* A string of the router is a sequence of tokens: "/" or the name of a
\* path segment.  No two names are adjacent in the strings used here.

\* The names that begin with ':'.
ColonNames == {":x", ":rest"}

HasSuffix(s, suffix) ==
    /\ Len(s) >= Len(suffix)
    /\ SubSeq(s, Len(s) - Len(suffix) + 1, Len(s)) = suffix

HasPrefix(s, prefix) ==
    /\ Len(s) >= Len(prefix)
    /\ SubSeq(s, 1, Len(prefix)) = prefix

TrimPrefix(s, prefix) ==
    IF HasPrefix(s, prefix) THEN SubSeq(s, Len(prefix) + 1, Len(s)) ELSE s

TrimSuffix(s, suffix) ==
    IF HasSuffix(s, suffix) THEN SubSeq(s, 1, Len(s) - Len(suffix)) ELSE s

RECURSIVE TrimLeft(_)
TrimLeft(s) == IF s # << >> /\ Head(s) = "/" THEN TrimLeft(Tail(s)) ELSE s

RECURSIVE TrimRight(_)
TrimRight(s) ==
    IF s # << >> /\ s[Len(s)] = "/"
    THEN TrimRight(SubSeq(s, 1, Len(s) - 1))
    ELSE s

\* strings.Trim(s, "/")
Trim(s) == TrimRight(TrimLeft(s))

\* strings.Index(s, "/") counted from 1: 0 when s has no "/".
RECURSIVE IndexSlashFrom(_, _)
IndexSlashFrom(s, i) ==
    IF i > Len(s) THEN 0
    ELSE IF s[i] = "/" THEN i
    ELSE IndexSlashFrom(s, i + 1)

\* pathSegment: the first segment and what follows its slash.
pathSegment(path) ==
    LET i == IndexSlashFrom(path, 1)
    IN  IF i = 0 THEN <<path, << >> >>
        ELSE <<SubSeq(path, 1, i - 1), SubSeq(path, i + 1, Len(path))>>

\* The segments path.Clean keeps of a rooted path: empty segments and "."
\* are dropped, ".." drops the segment before it.
RECURSIVE CleanSegs(_, _)
CleanSegs(p, acc) ==
    IF p = << >> THEN acc
    ELSE LET s == Head(p)
         IN  CleanSegs(Tail(p),
                 IF s = "/" \/ s = "." THEN acc
                 ELSE IF s = ".."
                      THEN SubSeq(acc, 1, Len(acc) - 1)
                      ELSE Append(acc, s))

\* strings.Join(segs, "/")
RECURSIVE JoinSlash(_)
JoinSlash(segs) ==
    IF Len(segs) <= 1 THEN segs
    ELSE <<Head(segs), "/">> \o JoinSlash(Tail(segs))

cleanPath(p) ==
    IF p = << >> THEN <<"/">>
    ELSE LET q == IF Head(p) # "/" THEN <<"/">> \o p ELSE p
             np == <<"/">> \o JoinSlash(CleanSegs(q, << >>))
         IN  IF q[Len(q)] = "/" /\ np # <<"/">> THEN np \o <<"/">> ELSE np

\* ------------------------------------------------------ router: the trie
\* A node is named by the edges that lead to it from the root: the segment
\* for a static child (a key of n.children), ParamEdge for n.param.  No
\* static child has the empty key.

ParamEdge == << >>

\* A handler is a tuple: none, one of the two synthetic redirect handlers,
\* the handler passed to Handle(pattern, h) on router n, or the one passed
\* to NotFound(h) on router n.
Nil == << >>

HandlerFunc(f) == <<f>>

HandlerFor(n, p) == <<"Handle", n, p>>

NotFoundHandler(n) == <<"NotFound", n>>

Slots == {"handler", "slashHandler", "catchAllHandler"}

newNode == [handler |-> Nil, slashHandler |-> Nil, catchAllHandler |-> Nil]

\* The node ensureNodeImpl returns for path below node n.
RECURSIVE ensureNodeImpl(_, _)
ensureNodeImpl(n, path) ==
    IF path = << >> THEN n
    ELSE LET seg == pathSegment(path)
             next == seg[1]
             rest == seg[2]
         IN  IF next = <<":rest">> /\ rest = << >> THEN n
             ELSE IF next # << >> /\ next[1] \in ColonNames
                  THEN ensureNodeImpl(Append(n, ParamEdge), rest)
                  ELSE ensureNodeImpl(Append(n, next), rest)

ensureNode(n, targetPath) == ensureNodeImpl(n, Trim(targetPath))

\* The tree after ensureNode: the nodes from n down to target exist.
WithNode(t, n, target) ==
    LET made == {SubSeq(target, 1, k) : k \in Len(n)..Len(target)}
    IN  [x \in DOMAIN t \cup made |->
            IF x \in DOMAIN t THEN t[x] ELSE newNode]

\* Handle with the exact and the slash slot exchanged.
SlotOfSwapped(pattern) ==
    IF HasSuffix(pattern, <<"/", ":rest">>) THEN "catchAllHandler"
    ELSE IF HasSuffix(pattern, <<"/">>) THEN "handler"
    ELSE "slashHandler"

\* The slot Handle assigns for a cleaned pattern.
SlotOf(pattern) ==
    IF HasSuffix(pattern, <<"/", ":rest">>) THEN "catchAllHandler"
    ELSE IF HasSuffix(pattern, <<"/">>) THEN "slashHandler"
    ELSE "handler"

\* What match returns, with the node and the slot the handler came from.
MatchResult(params, handler, node, slot) ==
    [params |-> params, handler |-> handler, node |-> node, slot |-> slot]

\* The first of n and its ancestors that holds a catch-all handler; the
\* root when none does.
RECURSIVE NearestCatchAll(_, _)
NearestCatchAll(t, n) ==
    IF t[n].catchAllHandler # Nil \/ n = << >> THEN n
    ELSE NearestCatchAll(t, SubSeq(n, 1, Len(n) - 1))

\* A parameter captured in front of the earlier ones.
CapturePrepend(params, next) == <<next>> \o params

\* append(params, next)
Capture(params, next) == Append(params, next)

\* matchImpl with no remaining path, without either synthetic redirect.
LeafNoRedirect(t, n, allowRedirect, hasSlash, params) ==
    IF hasSlash /\ t[n].slashHandler # Nil
    THEN MatchResult(params, t[n].slashHandler, n, "slashHandler")
    ELSE IF ~hasSlash /\ t[n].handler # Nil
    THEN MatchResult(params, t[n].handler, n, "handler")
    ELSE MatchResult(params, t[n].catchAllHandler, n, "catchAllHandler")

\* matchImpl with no remaining path: the node's own slots.
Leaf(t, n, allowRedirect, hasSlash, params) ==
    IF hasSlash /\ t[n].slashHandler # Nil
    THEN MatchResult(params, t[n].slashHandler, n, "slashHandler")
    ELSE IF hasSlash /\ allowRedirect /\ t[n].handler # Nil
    THEN MatchResult(params, HandlerFunc("redirectRemoveSlash"), n, "redirect")
    ELSE IF ~hasSlash /\ t[n].handler # Nil
    THEN MatchResult(params, t[n].handler, n, "handler")
    ELSE IF ~hasSlash /\ allowRedirect /\ t[n].slashHandler # Nil
    THEN MatchResult(params, HandlerFunc("redirectAddSlash"), n, "redirect")
    ELSE MatchResult(params, t[n].catchAllHandler, n, "catchAllHandler")

\* The unmatched position without the synthetic redirect.
UnmatchedNoRedirect(t, n, allowRedirect, hasSlash, params, rest) ==
    LET up == NearestCatchAll(t, n)
    IN  MatchResult(Append(params, rest), t[up].catchAllHandler, up,
                    "catchAllHandler")

\* The unmatched position answering with a catch-all of the parent chain
\* before it considers the synthetic redirect.
UnmatchedCatchAllFirst(t, n, allowRedirect, hasSlash, params, rest) ==
    LET up == NearestCatchAll(t, n)
    IN  IF t[up].catchAllHandler = Nil /\ allowRedirect /\ ~hasSlash
        THEN MatchResult(params, HandlerFunc("redirectAddSlash"), n,
                         "redirect")
        ELSE MatchResult(Append(params, rest), t[up].catchAllHandler, up,
                         "catchAllHandler")

\* matchImpl when neither child of n gave a handler.
Unmatched(t, n, allowRedirect, hasSlash, params, rest) ==
    IF allowRedirect /\ ~hasSlash
    THEN MatchResult(params, HandlerFunc("redirectAddSlash"), n, "redirect")
    ELSE LET up == NearestCatchAll(t, n)
         IN  MatchResult(Append(params, rest), t[up].catchAllHandler, up,
                         "catchAllHandler")

RECURSIVE matchImpl(_, _, _, _, _, _)
matchImpl(t, n, path, allowRedirect, hasSlash, params) ==
    IF n \notin DOMAIN t THEN MatchResult(<< >>, Nil, n, "none")
    ELSE IF path = << >> THEN Leaf(t, n, allowRedirect, hasSlash, params)
    ELSE LET seg == pathSegment(path)
             next == seg[1]
             rest == seg[2]
             static == matchImpl(t, Append(n, next), rest, allowRedirect,
                                 hasSlash, params)
             param == matchImpl(t, Append(n, ParamEdge), rest, allowRedirect,
                                hasSlash, Capture(params, next))
         IN  IF static.handler # Nil THEN static
             ELSE IF param.handler # Nil THEN param
             ELSE Unmatched(t, n, allowRedirect, hasSlash, params, rest)

\* match taking no path to end in a slash.
matchSlashless(t, n, targetPath, allowRedirect) ==
    LET tp == TrimPrefix(cleanPath(targetPath), <<"/">>)
    IN  matchImpl(t, n, tp, allowRedirect, FALSE, << >>)

\* match with the synthetic redirects allowed whatever the mux says.
matchRedirecting(t, n, targetPath, allowRedirect) ==
    LET tp == TrimPrefix(cleanPath(targetPath), <<"/">>)
    IN  matchImpl(t, n, tp, TRUE, HasSuffix(tp, <<"/">>), << >>)

match(t, n, targetPath, allowRedirect) ==
    LET tp == TrimPrefix(cleanPath(targetPath), <<"/">>)
    IN  matchImpl(t, n, tp, allowRedirect, HasSuffix(tp, <<"/">>), << >>)

\* The two synthetic handlers, applied to the path of the request.
redirectAddSlash(w, cn, path) ==
    WriteStatus(w, cn, StatusRedirect, cleanPath(path) \o <<"/">>)

redirectRemoveSlash(w, cn, path) ==
    WriteStatus(w, cn, StatusRedirect, TrimSuffix(cleanPath(path), <<"/">>))

\* node.ServeGemini: the handler match finds is run on the request; no
\* handler, no call.  What a registered handler writes is its own
\* business: here it writes nothing.
nodeServeGemini(t, n, w, cn, path, allowRedirect) ==
    LET m == match(t, n, path, allowRedirect)
    IN  IF m.handler = HandlerFunc("redirectAddSlash")
        THEN redirectAddSlash(w, cn, path)
        ELSE IF m.handler = HandlerFunc("redirectRemoveSlash")
        THEN redirectRemoveSlash(w, cn, path)
        ELSE Result(w, cn, FALSE)

NoPanic == "none"

\* ------------------------------------------------------------ client.go
\* A URL is [scheme, path]; the meta of a response is a sequence of
\* tokens: a scheme with its colon, an absolute path, or '%', that no
\* escape follows.

Schemes == {"gemini:", "http:"}

ErrUnknownProtocol == "unknown protocol"

ErrUnknownStatus == "unknown status"

NoURL == [scheme |-> "", path |-> << >>]

\* No response: a nil *Response.
NilResponse == [status |-> 0, meta |-> << >>, closed |-> FALSE]

NoReturn == [resp |-> NilResponse, err |-> "unreturned"]

\* The values DoContext returns.
Return(rsp, err) == [resp |-> rsp, err |-> err]

\* url.Parse: the reference, or an error for a '%' that starts no escape.
\* A meta is a sequence of tokens: a scheme first, if any, then the path
\* as a string of the router's kind.
urlParse(meta) ==
    IF \E i \in 1..Len(meta) : meta[i] = "%"
    THEN [err |-> "invalid URL escape", url |-> NoURL]
    ELSE IF meta # << >> /\ meta[1] \in Schemes
    THEN [err |-> "nil", url |-> [scheme |-> meta[1], path |-> Tail(meta)]]
    ELSE [err |-> "nil", url |-> [scheme |-> "", path |-> meta]]

\* strings.LastIndex(s, "/") counted from 1: 0 when s has no "/".
RECURSIVE LastIndexSlash(_, _)
LastIndexSlash(s, i) ==
    IF i = 0 THEN 0
    ELSE IF s[i] = "/" THEN i
    ELSE LastIndexSlash(s, i - 1)

\* resolvePath of net/url for paths without "." and ".." segments: an
\* empty reference keeps the base, a rooted one replaces it, any other
\* replaces what follows the last slash of the base.
resolvePath(base, ref) ==
    IF ref = << >> THEN base
    ELSE IF Head(ref) # "/"
    THEN SubSeq(base, 1, LastIndexSlash(base, Len(base))) \o ref
    ELSE ref

\* URL.ResolveReference: a reference with a scheme is the result; any
\* other takes the scheme of the base and resolves its path against it.
ResolveReference(base, ref) ==
    IF ref.scheme # "" THEN ref
    ELSE [scheme |-> base.scheme, path |-> resolvePath(base.path, ref.path)]

\* NewRequestURL: a URL without a scheme is a gemini URL.  The paths here
\* are clean already.
NewRequestURL(u) ==
    IF u.scheme = "" THEN [u EXCEPT !.scheme = "gemini:"] ELSE u

IsRedirect(status) ==
    status >= StatusRedirect /\ status < StatusTemporaryFailure

statusIsUnknown(status) == status < StatusInput \/ status > statusSentinel

\* The default policy stopping one request later.
defaultCheckRedirectLate(rq, via) ==
    IF Len(via) > MaxVia THEN "too many redirects" ELSE "nil"

defaultCheckRedirect(rq, via) ==
    IF Len(via) >= MaxVia THEN "too many redirects" ELSE "nil"

\* The custom policies: one rejects every redirect, one accepts them all.
Policies == {"reject", "accept"}

checkRedirect(fn, rq, via) ==
    IF fn = "nil" THEN defaultCheckRedirect(rq, via)
    ELSE IF fn = "reject" THEN "rejected by policy"
    ELSE "nil"

\* The scheme test that lets every scheme pass.
AnyScheme(u) == TRUE

\* r.URL.Scheme == "gemini"
IsGemini(u) == u.scheme = "gemini:"

\* A return after a failed doRequest that drops the error.
AttemptFailedSilently(err) == Return(NilResponse, "nil")

\* The return after a failed doRequest.
AttemptFailed(err) == Return(NilResponse, err)

\* The return after a policy error, with the response dropped.
PolicyRejectedNoResponse(rsp, err) == Return(NilResponse, err)

\* The return after a policy error.
PolicyRejected(rsp, err) == Return(rsp, err)

\* What doRequest may give: an error, or a response with one of these
\* statuses and metas.
ServerStatuses ==
    {StatusInput - 1, StatusInput, StatusSuccess, StatusRedirect,
     statusSentinel - 1, statusSentinel, statusSentinel + 1}

Metas == {<<"/", "d", "/", "a">>, <<"b">>, <<"http:", "/", "a">>, <<"%">>}

StartURLs == {[scheme |-> "", path |-> <<"/", "a">>]}

\* The errors of doRequest: of the dial, of conn.Write, and of
\* ReadResponse reading or decoding the status line.
DoRequestErrors == {"dial", "write", "EOF", "malformed status line"}

DoRequestResults ==
    {[err |-> e, status |-> 0, meta |-> << >>] : e \in DoRequestErrors} \cup
    {[err |-> "nil", status |-> st, meta |-> m] :
        st \in ServerStatuses, m \in Metas}

\* The redirect resolved against the request DoContext was called with.
FirstRequest(rq, via) == IF via = << >> THEN rq ELSE via[1]

\* The base of the redirect: r, the request that was just answered.
RedirectBase(rq, via) == rq

\* A redirect followed with the body of its response left open.
LeaveBodyOpen(rsp) == rsp

\* resp.Body.Close(): the body's Close closes the connection.
CloseBody(rsp) == [rsp EXCEPT !.closed = TRUE]

\* One turn of the loop of DoContext on request rq after the requests via,
\* when doRequest gives out and resp.Body.Close() gives closeErr: whether
\* DoContext returns and what, the next request, and the policy's answer
\* ("none": it was not asked).
LoopTurn(fn, rq, via, out, closeErr) ==
    LET rsp == [status |-> out.status, meta |-> out.meta, closed |-> FALSE]
        shut == CloseBody(rsp)
        ref == urlParse(out.meta)
        nxt == NewRequestURL(ResolveReference(RedirectBase(rq, via), ref.url))
        via2 == Append(via, rq)
        perr == checkRedirect(fn, nxt, via2)
        Turn(done, rt, r2, v2, rs, pe) ==
            [done |-> done, ret |-> rt, req |-> r2, reqs |-> v2,
             resp |-> rs, policyErr |-> pe]
    IN  IF out.err # "nil"
        THEN Turn(TRUE, AttemptFailed(out.err), rq, via, NilResponse, "none")
        ELSE IF statusIsUnknown(out.status)
        THEN Turn(TRUE, Return(rsp, ErrUnknownStatus), rq, via, rsp, "none")
        ELSE IF ~IsRedirect(out.status)
        THEN Turn(TRUE, Return(rsp, "nil"), rq, via, rsp, "none")
        ELSE IF closeErr # "nil"
        THEN Turn(TRUE, Return(NilResponse, closeErr), rq, via, shut, "none")
        ELSE IF ref.err # "nil"
        THEN Turn(TRUE, Return(NilResponse, ref.err), rq, via2, shut, "none")
        ELSE IF ~IsGemini(nxt)
        THEN Turn(TRUE, Return(shut, ErrUnknownProtocol), nxt, via2, shut,
                  "none")
        ELSE IF perr # "nil"
        THEN Turn(TRUE, PolicyRejected(shut, perr), nxt, via2, shut, perr)
        ELSE Turn(FALSE, NoReturn, nxt, via2, shut, perr)

\* --------------------------------------------------- Client.doRequest
\* A retVal is [resp, err]; resp is the status of the response, 0 for a
\* nil *Response.

retVal(rsp, err) == [resp |-> rsp, err |-> err]

\* No retVal yet.
NoRetVal == retVal(0, "none")

\* make(chan retVal, 2)
retChanCap == 2

\* What ReadResponse gives once the server has answered: a response, a
\* read error, or a status line that does not decode.
Answers ==
    {retVal(StatusSuccess, "nil"), retVal(StatusRedirect, "nil"),
     retVal(0, "EOF"), retVal(0, "malformed status line")}

\* A receive that takes the newest buffered value.
ReceiveNewest(ch) == ch[Len(ch)]

\* <-retChan on a channel that holds values: the oldest.
Receive(ch) == Head(ch)

\* A doRequest that leaves the connection to its caller in every case.
NeverClose(r) == FALSE

\* ret.resp == nil: doRequest closes the connection itself.
ClosesConn(r) == r.resp = 0

\* ---------------------------------------------------------- response.go

\* What strconv.Atoi may give for the status of a response.
Statuses == (0 - MaxStatus)..MaxStatus

IsInput(st) == st >= StatusInput /\ st < StatusSuccess

IsSuccess(st) == st >= StatusSuccess /\ st < StatusRedirect

IsTemporaryFailure(st) ==
    st >= StatusTemporaryFailure /\ st < StatusPermanentFailure

IsPermanentFailure(st) ==
    st >= StatusPermanentFailure /\ st < StatusCertificateRequired

\* A last band that takes the sentinel in.
IsCertificateRequiredClosed(st) ==
    st >= StatusCertificateRequired /\ st <= statusSentinel

IsCertificateRequired(st) ==
    st >= StatusCertificateRequired /\ st < statusSentinel

\* The six band predicates, by name.
BandNames ==
    {"IsInput", "IsSuccess", "IsRedirect", "IsTemporaryFailure",
     "IsPermanentFailure", "IsCertificateRequired"}

Band(name, st) ==
    CASE name = "IsInput" -> IsInput(st)
      [] name = "IsSuccess" -> IsSuccess(st)
      [] name = "IsRedirect" -> IsRedirect(st)
      [] name = "IsTemporaryFailure" -> IsTemporaryFailure(st)
      [] name = "IsPermanentFailure" -> IsPermanentFailure(st)
      [] name = "IsCertificateRequired" -> IsCertificateRequired(st)

\* ---------------------------------------------------------- StripPrefix
\* Paths and prefixes are sequences of bytes here.

StripBytes == {"/", "a", "b"}

StripStrings == SeqsUpTo(StripBytes, MaxStripLen)

\* A request r2 that shares the URL of r.
SharedURL == [req |-> 2, url |-> 1]

\* r2 := new(Request); r2.URL = new(url.URL): the fresh values on the heap.
NewRequestAndURL == [req |-> 2, url |-> 2]

\* ----------------------------------------------------------------- Init

Init ==
    /\ servePc = "start"
    /\ tempDelay = 0
    /\ serveErr = "nil"
    /\ lClosed = FALSE
    /\ tlsNil \in BOOLEAN
    /\ handlerNil \in BOOLEAN
    /\ run = 0
    /\ nTransient = 0
    /\ lastAccept = "none"
    /\ connPc = [c \in Conns |-> "pending"]
    /\ req = [c \in Conns |-> NoRequest]
    /\ writer = [c \in Conns |-> newResponseWriter]
    /\ rwc = [c \in Conns |-> newConn]
    /\ panicVal = [c \in Conns |-> "none"]
    /\ unwinding = [c \in Conns |-> FALSE]
    /\ dleft = [c \in Conns |-> 0]
    /\ hcalls = [c \in Conns |-> 0]
    /\ handlerCalls = [c \in Conns |-> 0]
    /\ logged = [c \in Conns |-> FALSE]
    /\ warned = [c \in Conns |-> FALSE]
    /\ forced = [c \in Conns |-> 0]
    \* NewServeMux: an empty root, redirects enabled
    /\ tree = [n \in {<< >>} |-> newNode]
    /\ RedirectSlash = TRUE
    /\ regPanic = NoPanic
    \* the zero Client, before any call
    /\ CheckRedirect = "nil"
    /\ cliPc = "idle"
    /\ cliReq = NoURL
    /\ reqs = << >>
    /\ resp = NilResponse
    /\ ret = NoReturn
    /\ issued = 0
    /\ policyCalls = 0
    /\ policyErr = "none"
    /\ openConns = 0
    /\ peakConns = 0
    \* before doRequest is called
    /\ dqPc = "idle"
    /\ ctxDone = FALSE
    /\ doneChan = FALSE
    /\ retChan = << >>
    /\ rawConn = "nil"
    /\ waiterPc = "none"
    /\ senderPc = "none"
    /\ senderVal = NoRetVal
    /\ answer = NoRetVal
    /\ got = NoRetVal
    /\ dqRet = NoRetVal
    /\ delivered = << >>
    \* before StripPrefix is called; the request r is Request 1 with URL 1
    /\ stripPrefix = << >>
    /\ urlPath = [u \in {1} |-> << >>]
    /\ reqURL = [r \in {1} |-> 1]
    /\ spPc = "new"
    /\ hReq = 0
    /\ hPath = << >>
    /\ hCalls = 0
    /\ spWriter = newResponseWriter
    /\ spConn = newConn
    \* no response decoded yet
    /\ bandPc = "new"
    /\ respStatus = 0
    /\ bands = {}

\* ---------------------------------------------------------- Server.Serve

\* tlsConfig := s.TLS.Clone(); tlsConfig.MinVersion is read: a nil s.TLS
\* panics here, and the deferred l.Close() runs.
ServeStart ==
    /\ servePc = "start"
    /\ IF tlsNil
       THEN servePc' = "panicked" /\ lClosed' = TRUE
       ELSE servePc' = "accept" /\ lClosed' = lClosed
    /\ UNCHANGED <<tempDelay, serveErr, run, nTransient, lastAccept>>
    /\ UNCHANGED <<otherVars, connVars>>

\* l.Accept() returns connection c; go s.serve(rwc).
AcceptOK(c) ==
    /\ AtAccept
    /\ connPc[c] = "pending"
    /\ connPc' = [connPc EXCEPT ![c] = "read"]
    /\ writer' = [writer EXCEPT ![c] = newResponseWriter]
    /\ dleft' = [dleft EXCEPT ![c] = Len(ServeDefers)]
    /\ run' = 0
    /\ lastAccept' = "ok"
    /\ UNCHANGED <<servePc, tempDelay, serveErr, lClosed, nTransient>>
    /\ UNCHANGED <<req, rwc, panicVal, unwinding, hcalls, handlerCalls, logged, warned, forced>>
    /\ UNCHANGED otherVars

\* l.Accept() returns a net.Error with Temporary().
AcceptTransient ==
    /\ AtAccept
    /\ nTransient < MaxTransient
    /\ tempDelay' = NextDelay(tempDelay)
    /\ servePc' = "sleep"
    /\ run' = run + 1
    /\ nTransient' = nTransient + 1
    /\ lastAccept' = "temporary"
    /\ UNCHANGED <<serveErr, lClosed>>
    /\ UNCHANGED <<otherVars, connVars>>

\* time.Sleep(tempDelay); continue
Sleep ==
    /\ servePc = "sleep"
    /\ servePc' = "accept"
    /\ UNCHANGED <<tempDelay, serveErr, lClosed, run, nTransient, lastAccept>>
    /\ UNCHANGED <<otherVars, connVars>>

\* The return without the deferred l.Close().
AcceptFatalNoClose ==
    /\ AtAccept
    /\ servePc' = "returned"
    /\ serveErr' = "accept error"
    /\ lastAccept' = "fatal"
    /\ UNCHANGED <<tempDelay, run, nTransient, lClosed>>
    /\ UNCHANGED <<otherVars, connVars>>

\* l.Accept() returns any other error: return err, and the deferred
\* l.Close() runs.
AcceptFatal ==
    /\ AtAccept
    /\ servePc' = "returned"
    /\ serveErr' = "accept error"
    /\ lClosed' = TRUE
    /\ lastAccept' = "fatal"
    /\ UNCHANGED <<tempDelay, run, nTransient>>
    /\ UNCHANGED <<otherVars, connVars>>

\* ---------------------------------------------------------- Server.serve

\* req, err := ReadRequest(rwc), the peer having sent one of inputs; on an
\* error serve returns, otherwise it calls s.Handler.ServeGemini unless
\* s.Handler is nil.
ReadReq(c, inputs) ==
    /\ Running
    /\ connPc[c] = "read"
    /\ \E bytes \in inputs :
         LET r == ReadRequest(bytes)
         IN  /\ req' = [req EXCEPT ![c] = r]
             /\ connPc' = [connPc EXCEPT ![c] =
                   IF r.err # "nil" THEN "defer"
                   ELSE IF handlerNil THEN "after" ELSE "handler"]
             /\ handlerCalls' = [handlerCalls EXCEPT ![c] =
                   IF r.err = "nil" /\ ~handlerNil THEN @ + 1 ELSE @]
    /\ UNCHANGED <<writer, rwc, panicVal, unwinding, dleft, hcalls, logged, warned, forced>>
    /\ UNCHANGED <<serveVars, otherVars>>

\* The handler calls w.WriteStatus(statusCode, meta).
HandlerWriteStatus(c, statusCode, meta) ==
    /\ Running
    /\ connPc[c] = "handler"
    /\ hcalls[c] < MaxCalls
    /\ LET s == WriteStatus(writer[c], rwc[c], statusCode, meta)
       IN  /\ writer' = [writer EXCEPT ![c] = s.w]
           /\ rwc' = [rwc EXCEPT ![c] = s.cn]
           /\ warned' = [warned EXCEPT ![c] = @ \/ s.warn]
    /\ hcalls' = [hcalls EXCEPT ![c] = @ + 1]
    /\ UNCHANGED <<connPc, req, panicVal, unwinding, dleft, handlerCalls, logged, forced>>
    /\ UNCHANGED <<serveVars, otherVars>>

\* The handler calls w.Write(data).
HandlerWrite(c, data) ==
    /\ Running
    /\ connPc[c] = "handler"
    /\ hcalls[c] < MaxCalls
    /\ LET s == Write(writer[c], rwc[c], data)
       IN  /\ writer' = [writer EXCEPT ![c] = s.w]
           /\ rwc' = [rwc EXCEPT ![c] = s.cn]
           /\ warned' = [warned EXCEPT ![c] = @ \/ s.warn]
    /\ hcalls' = [hcalls EXCEPT ![c] = @ + 1]
    /\ UNCHANGED <<connPc, req, panicVal, unwinding, dleft, handlerCalls, logged, forced>>
    /\ UNCHANGED <<serveVars, otherVars>>

\* ServeGemini returns.
HandlerReturn(c) ==
    /\ Running
    /\ connPc[c] = "handler"
    /\ connPc' = [connPc EXCEPT ![c] = "after"]
    /\ UNCHANGED <<req, writer, rwc, panicVal, unwinding, dleft, hcalls,
                   handlerCalls, logged, warned, forced>>
    /\ UNCHANGED <<serveVars, otherVars>>

\* ServeGemini panics with value pv: serve unwinds through its deferred calls.
HandlerPanic(c, pv) ==
    /\ Running
    /\ connPc[c] = "handler"
    /\ connPc' = [connPc EXCEPT ![c] = "defer"]
    /\ panicVal' = [panicVal EXCEPT ![c] = pv]
    /\ unwinding' = [unwinding EXCEPT ![c] = TRUE]
    /\ UNCHANGED <<req, writer, rwc, dleft, hcalls, handlerCalls, logged, warned, forced>>
    /\ UNCHANGED <<serveVars, otherVars>>

\* ServeGemini never returns.
HandlerHang(c) ==
    /\ Running
    /\ connPc[c] = "handler"
    /\ connPc' = [connPc EXCEPT ![c] = "hung"]
    /\ UNCHANGED <<req, writer, rwc, panicVal, unwinding, dleft, hcalls,
                   handlerCalls, logged, warned, forced>>
    /\ UNCHANGED <<serveVars, otherVars>>

\* if !writer.hasWritten { NotFound(...) }; the "<--" log line; return.
AfterHandler(c) ==
    /\ Running
    /\ connPc[c] = "after"
    /\ LET s == IF ~writer[c].hasWritten
                THEN NotFound(writer[c], rwc[c])
                ELSE Result(writer[c], rwc[c], FALSE)
       IN  /\ writer' = [writer EXCEPT ![c] = s.w]
           /\ rwc' = [rwc EXCEPT ![c] = s.cn]
           /\ warned' = [warned EXCEPT ![c] = @ \/ s.warn]
    /\ connPc' = [connPc EXCEPT ![c] = "defer"]
    /\ UNCHANGED <<req, panicVal, unwinding, dleft, hcalls, handlerCalls, logged, forced>>
    /\ UNCHANGED <<serveVars, otherVars>>

\* The effect of the deferred rwc.Close().
DeferredClose(c) ==
    /\ rwc' = [rwc EXCEPT ![c].closed = TRUE]
    /\ UNCHANGED <<writer, unwinding, logged, warned, forced>>

\* The effect of the deferred func(): recover(), the panic log, and the
\* forced status.
DeferredRecover(c) ==
    LET force == ForcesStatus(writer[c], panicVal[c])
        s == IF force
             THEN WriteStatus(writer[c], rwc[c], StatusCGIError, "internal panic")
             ELSE Result(writer[c], rwc[c], FALSE)
    IN  /\ unwinding' = [unwinding EXCEPT ![c] = FALSE]
        /\ warned' = [warned EXCEPT ![c] = @ \/ s.warn]
        /\ logged' = [logged EXCEPT ![c] =
              @ \/ (unwinding[c] /\ LogsPanic(panicVal[c]))]
        /\ forced' = [forced EXCEPT ![c] = IF force THEN @ + 1 ELSE @]
        /\ writer' = [writer EXCEPT ![c] = s.w]
        /\ rwc' = [rwc EXCEPT ![c] = s.cn]

\* serve returns or unwinds: its next deferred call runs.  When the last
\* one has run the goroutine ends; a panic no deferred call recovered
\* ends the whole process.
RunDeferred(c) ==
    /\ Running
    /\ connPc[c] = "defer"
    /\ dleft[c] > 0
    /\ IF ServeDefers[dleft[c]] = "close"
       THEN DeferredClose(c)
       ELSE DeferredRecover(c)
    /\ dleft' = [dleft EXCEPT ![c] = @ - 1]
    /\ connPc' = [connPc EXCEPT ![c] = IF dleft[c] = 1 THEN "done" ELSE @]
    /\ servePc' = IF dleft[c] = 1 /\ unwinding'[c] THEN "crashed" ELSE servePc
    /\ UNCHANGED <<req, panicVal, hcalls, handlerCalls>>
    /\ UNCHANGED <<tempDelay, serveErr, lClosed, run, nTransient, lastAccept>>
    /\ UNCHANGED otherVars

\* ------------------------------------------------------- specifications

\* One step of the handler of connection c.
HandlerStep(c) ==
    \/ \E sm \in HandlerStatuses : HandlerWriteStatus(c, sm[1], sm[2])
    \/ \E data \in HandlerData : HandlerWrite(c, data)
    \/ HandlerReturn(c)
    \/ \E pv \in PanicValues : HandlerPanic(c, pv)
    \/ HandlerHang(c)

\* The transaction engine: connections are accepted and served, each
\* followed call by call.
Next ==
    \/ ServeStart
    \/ \E c \in TxConns : AcceptOK(c)
    \/ \E c \in TxConns : ReadReq(c, PeerInputs)
    \/ \E c \in TxConns : HandlerStep(c)
    \/ \E c \in TxConns : AfterHandler(c)
    \/ \E c \in TxConns : RunDeferred(c)

Spec == Init /\ [][Next]_vars

\* The accept loop alone, with the errors Accept may return.
ServeNext ==
    \/ ServeStart
    \/ \E c \in Conns : AcceptOK(c)
    \/ AcceptTransient
    \/ Sleep
    \/ AcceptFatal

ServeSpec == Init /\ [][ServeNext]_vars

\* The accept loop and its goroutines under the scheduler's fairness: a
\* goroutine that can run does run.  The peers here send one well-formed
\* or one unterminated request, and the handlers write body bytes.
ConcInputs == {<<"a", "CR", "LF">>, <<"a">>}

ConcHandlerStep(c) ==
    \/ HandlerWrite(c, <<"x">>)
    \/ HandlerReturn(c)
    \/ \E pv \in PanicValues : HandlerPanic(c, pv)
    \/ HandlerHang(c)

ConcNext ==
    \/ ServeStart
    \/ \E c \in Conns : AcceptOK(c)
    \/ \E c \in Conns : ReadReq(c, ConcInputs)
    \/ \E c \in Conns : ConcHandlerStep(c)
    \/ \E c \in Conns : AfterHandler(c)
    \/ \E c \in Conns : RunDeferred(c)

ConcInit == Init /\ ~tlsNil

ConcSpec ==
    /\ ConcInit
    /\ [][ConcNext]_vars
    /\ WF_vars(ServeStart)
    /\ \A c \in Conns :
          /\ WF_vars(AcceptOK(c))
          /\ WF_vars(ReadReq(c, ConcInputs))
          /\ WF_vars(ConcHandlerStep(c))
          /\ WF_vars(AfterHandler(c))
          /\ WF_vars(RunDeferred(c))

\* --------------------------------------------------------------- ServeMux
\* The patterns given to Handle and Route and the paths given to match.
PatternNames == {"a", ":x"}

PatternTails == {<< >>, <<"/">>, <<"/", ":rest">>}

PathNames == {"a", "b"}

Patterns ==
    {<<"/">> \o JoinSlash(segs) \o tail :
        segs \in SeqsUpTo(PatternNames, MaxNodes - 1), tail \in PatternTails}

\* The empty path, and rooted paths with and without a trailing slash.
Paths ==
    {<< >>} \cup
    {<<"/">> \o JoinSlash(segs) \o trail :
        trail \in {<< >>, <<"/">>},
        segs \in SeqsUpTo(PathNames, MaxPathSegs)}

\* The handlers stored in the tree.
Registered == {tree[n][s] : n \in DOMAIN tree, s \in Slots} \ {Nil}

\* The assignment that replaces the handler of a taken slot.
AssignOverwrite(made, target, slot, h) ==
    /\ Cardinality(Registered) < MaxRoutes
    /\ regPanic' = NoPanic
    /\ tree' = [made EXCEPT ![target][slot] = h]

\* The assignment of h to a slot of target: a panic when the slot is taken.
Assign(made, target, slot, h) ==
    IF made[target][slot] # Nil
    THEN /\ regPanic' = (IF slot = "catchAllHandler"
                         THEN "overlapping catchAllHandlers"
                         ELSE "overlapping handlers")
         /\ tree' = made
    ELSE /\ Cardinality(Registered) < MaxRoutes
         /\ regPanic' = NoPanic
         /\ tree' = [made EXCEPT ![target][slot] = h]

\* n.Handle(pattern, h).  A panic ends the registrations.
Handle(n, pattern) ==
    /\ regPanic = NoPanic
    /\ n \in DOMAIN tree
    /\ LET p == cleanPath(pattern)
           target == ensureNode(n, p)
           made == WithNode(tree, n, target)
       IN  /\ Cardinality(DOMAIN made) <= MaxNodes
           /\ Assign(made, target, SlotOf(p), HandlerFor(n, p))
    /\ UNCHANGED <<RedirectSlash, serverVars, clientVars, unitVars>>

\* n.NotFound(h)
nodeNotFound(n) ==
    /\ regPanic = NoPanic
    /\ n \in DOMAIN tree
    /\ Assign(tree, ensureNode(n, <<":rest">>), "catchAllHandler",
              NotFoundHandler(n))
    /\ UNCHANGED <<RedirectSlash, serverVars, clientVars, unitVars>>

\* n.Route(pattern, fn): the node of the pattern exists afterwards; what
\* fn registers on it are further calls of Handle.
Route(n, pattern) ==
    /\ regPanic = NoPanic
    /\ n \in DOMAIN tree
    /\ LET target == ensureNode(n, cleanPath(pattern))
           made == WithNode(tree, n, target)
       IN  /\ Cardinality(DOMAIN made) <= MaxNodes
           /\ tree' = made
    /\ UNCHANGED <<RedirectSlash, regPanic, serverVars, clientVars, unitVars>>

\* mux.RedirectSlash = b
SetRedirectSlash(b) ==
    /\ regPanic = NoPanic
    /\ RedirectSlash # b
    /\ RedirectSlash' = b
    /\ UNCHANGED <<tree, regPanic, serverVars, clientVars, unitVars>>

RouterNext ==
    \/ \E pattern \in Patterns : Handle(<< >>, pattern)
    \/ nodeNotFound(<< >>)
    \/ \E pattern \in Patterns : Route(<< >>, pattern)
    \/ \E b \in BOOLEAN : SetRedirectSlash(b)

RouterInit == Init /\ ~tlsNil /\ ~handlerNil

RouterSpec == RouterInit /\ [][RouterNext]_vars

\* ------------------------------------------------------------ sub-routers
\* Registration as a function of the tree: the tree and the panic after
\* n.Handle(pattern, h), after n.NotFound(h), and the tree and the node
\* returned by n.Route(pattern, fn) before fn registers anything.

Outcome(t, panic) == [tree |-> t, panic |-> panic]

HandleOn(t, n, pattern, h) ==
    LET p == cleanPath(pattern)
        target == ensureNode(n, p)
        made == WithNode(t, n, target)
    IN  IF made[target][SlotOf(p)] # Nil
        THEN Outcome(made, IF SlotOf(p) = "catchAllHandler"
                           THEN "overlapping catchAllHandlers"
                           ELSE "overlapping handlers")
        ELSE Outcome([made EXCEPT ![target][SlotOf(p)] = h], NoPanic)

NotFoundOn(t, n, h) ==
    LET target == ensureNode(n, <<":rest">>)
    IN  IF t[target].catchAllHandler # Nil
        THEN Outcome(t, "overlapping catchAllHandlers")
        ELSE Outcome([t EXCEPT ![target].catchAllHandler = h], NoPanic)

\* Route handing out the router it was called on.
RouteOnSelf(t, n, pattern) ==
    [tree |-> WithNode(t, n, ensureNode(n, cleanPath(pattern))), node |-> n]

RouteOn(t, n, pattern) ==
    LET target == ensureNode(n, cleanPath(pattern))
    IN  [tree |-> WithNode(t, n, target), node |-> target]

\* The prefixes at which the program mounts sub-routers on the mux, and
\* the patterns it registers on the mux and on the sub-routers.
MountPrefixes == {<<"/", "a">>, <<"/", ":x">>}

MountPatterns ==
    {<<"/", "a">>, <<"/", "a", "/">>, <<"/", ":x">>, <<"/", "a", "/", ":rest">>,
     <<"/">>}

MaxMountNodes == 6

MaxMounts == 3

\* The mux and the routers Route has returned.
Routers ==
    {<< >>} \cup ({RouteOn(tree, << >>, prefix).node : prefix \in MountPrefixes}
                     \cap DOMAIN tree)

\* mux.Route(prefix, fn), up to the call of fn.
RouteAt(prefix) ==
    /\ regPanic = NoPanic
    /\ LET r == RouteOn(tree, << >>, prefix)
       IN  /\ r.node \notin DOMAIN tree
           /\ Cardinality(DOMAIN r.tree) <= MaxMountNodes
           /\ tree' = r.tree
    /\ UNCHANGED <<RedirectSlash, regPanic, serverVars, clientVars, unitVars>>

\* r.Handle(pattern, h) on the mux or on a sub-router.
HandleAt(n, pattern) ==
    /\ regPanic = NoPanic
    /\ n \in Routers
    /\ LET o == HandleOn(tree, n, pattern, HandlerFor(n, cleanPath(pattern)))
       IN  /\ Cardinality(DOMAIN o.tree) <= MaxMountNodes
           /\ o.panic = NoPanic => Cardinality(Registered) < MaxMounts
           /\ tree' = o.tree
           /\ regPanic' = o.panic
    /\ UNCHANGED <<RedirectSlash, serverVars, clientVars, unitVars>>

\* r.NotFound(h) on the mux or on a sub-router.
NotFoundAt(n) ==
    /\ regPanic = NoPanic
    /\ n \in Routers
    /\ LET o == NotFoundOn(tree, n, NotFoundHandler(n))
       IN  /\ o.panic = NoPanic => Cardinality(Registered) < MaxMounts
           /\ tree' = o.tree
           /\ regPanic' = o.panic
    /\ UNCHANGED <<RedirectSlash, serverVars, clientVars, unitVars>>

MountNext ==
    \/ \E prefix \in MountPrefixes : RouteAt(prefix)
    \/ \E n \in DOMAIN tree, pattern \in MountPatterns : HandleAt(n, pattern)
    \/ \E n \in DOMAIN tree : NotFoundAt(n)

MountInit == Init /\ ~tlsNil /\ ~handlerNil

MountSpec == MountInit /\ [][MountNext]_vars

\* ------------------------------------------------------ Client.DoContext

\* c.CheckRedirect = fn, before the call
SetCheckRedirect(fn) ==
    /\ cliPc = "idle"
    /\ CheckRedirect = "nil"
    /\ CheckRedirect' = fn
    /\ UNCHANGED <<cliPc, cliReq, reqs, resp, ret, issued, policyCalls,
                   policyErr, openConns, peakConns, serverVars, routerVars,
                   unitVars>>

\* c.DoContext(ctx, NewRequestURL(u)) is called.
DoContext(u) ==
    /\ cliPc = "idle"
    /\ cliPc' = "loop"
    /\ cliReq' = NewRequestURL(u)
    /\ UNCHANGED <<CheckRedirect, reqs, resp, ret, issued, policyCalls,
                   policyErr, openConns, peakConns, serverVars, routerVars,
                   unitVars>>

\* One turn of the loop: doRequest and what follows it.
DoRequest(out, closeErr) ==
    /\ cliPc = "loop"
    /\ issued < MaxRequests
    /\ LET t == LoopTurn(CheckRedirect, cliReq, reqs, out, closeErr)
       IN  /\ cliPc' = IF t.done THEN "returned" ELSE "loop"
           /\ cliReq' = t.req
           /\ reqs' = t.reqs
           /\ resp' = t.resp
           /\ ret' = t.ret
           /\ policyErr' = t.policyErr
           /\ policyCalls' = IF t.policyErr = "none" THEN policyCalls
                             ELSE policyCalls + 1
           /\ LET dialed == IF out.err = "dial" THEN 0 ELSE 1
                  atDial == openConns + dialed
                  failed == ClosesConn(retVal(IF out.err = "nil"
                                              THEN out.status ELSE 0,
                                              out.err))
                  left == IF failed THEN atDial - dialed ELSE atDial
              IN  /\ peakConns' = IF atDial > peakConns THEN atDial
                                  ELSE peakConns
                  /\ openConns' = IF t.resp.closed THEN left - 1 ELSE left
    /\ issued' = issued + 1
    /\ UNCHANGED <<CheckRedirect, serverVars, routerVars, unitVars>>

ClientNext ==
    \/ \E fn \in Policies : SetCheckRedirect(fn)
    \/ \E u \in StartURLs : DoContext(u)
    \/ \E out \in DoRequestResults, closeErr \in {"nil", "close"} :
           DoRequest(out, closeErr)

ClientInit == Init /\ ~tlsNil /\ ~handlerNil

ClientSpec == ClientInit /\ [][ClientNext]_vars

\* ------------------------------------------------------ Client.doRequest

\* What no step of doRequest touches.
dqOthers == <<serverVars, routerVars, clientVars, stripVars, bandVars>>

\* retChan <- v.  A receiver already parked on the channel is handed the
\* value; otherwise the value is buffered, and the send blocks while the
\* buffer is full.
Send(v) ==
    /\ IF dqPc = "recv"
       THEN /\ got' = v
            /\ dqPc' = "got"
            /\ UNCHANGED retChan
       ELSE /\ Len(retChan) < retChanCap
            /\ retChan' = Append(retChan, v)
            /\ UNCHANGED <<got, dqPc>>
    /\ delivered' = Append(delivered, v)

\* The context is cancelled or its deadline passes.
CtxCancel ==
    /\ ~ctxDone
    /\ ctxDone' = TRUE
    /\ UNCHANGED <<dqPc, doneChan, retChan, rawConn, waiterPc, senderPc,
                   senderVal, answer, got, dqRet, delivered, dqOthers>>

\* dialer.DialContext, and on success the two go statements.
Dial(ok) ==
    /\ dqPc = "idle"
    /\ IF ok
       THEN /\ ~ctxDone
            /\ rawConn' = "open"
            /\ dqPc' = "started"
            /\ waiterPc' = "select"
            /\ senderPc' = "write"
            /\ UNCHANGED dqRet
       ELSE /\ dqPc' = "returned"
            /\ dqRet' = retVal(0, "dial")
            /\ UNCHANGED <<rawConn, waiterPc, senderPc>>
    /\ UNCHANGED <<ctxDone, doneChan, retChan, senderVal, answer, got,
                   delivered, dqOthers>>

\* ret := <-retChan: take a buffered value or park on the channel.
MainReceive ==
    /\ dqPc = "started"
    /\ IF retChan # << >>
       THEN /\ got' = Receive(retChan)
            /\ retChan' = Tail(retChan)
            /\ dqPc' = "got"
       ELSE /\ dqPc' = "recv"
            /\ UNCHANGED <<got, retChan>>
    /\ UNCHANGED <<ctxDone, doneChan, rawConn, waiterPc, senderPc,
                   senderVal, answer, dqRet, delivered, dqOthers>>

\* if ret.resp == nil { _ = rawConn.Close() }
MainClose ==
    /\ dqPc = "got"
    /\ dqPc' = "return"
    /\ rawConn' = IF ClosesConn(got) THEN "closed" ELSE rawConn
    /\ UNCHANGED <<ctxDone, doneChan, retChan, waiterPc, senderPc,
                   senderVal, answer, got, dqRet, delivered, dqOthers>>

\* return ret.resp, ret.err, and the deferred close(doneChan)
MainReturn ==
    /\ dqPc = "return"
    /\ dqPc' = "returned"
    /\ dqRet' = got
    /\ doneChan' = TRUE
    /\ UNCHANGED <<ctxDone, retChan, rawConn, waiterPc, senderPc,
                   senderVal, answer, got, delivered, dqOthers>>

\* The select of the first unit: either case that is ready.
WaiterSelect ==
    /\ waiterPc = "select"
    /\ \/ ctxDone /\ waiterPc' = "send"
       \/ doneChan /\ waiterPc' = "done"
    /\ UNCHANGED <<dqPc, ctxDone, doneChan, retChan, rawConn, senderPc,
                   senderVal, answer, got, dqRet, delivered, dqOthers>>

\* retChan <- retVal{nil, errors.New("request timed out")}
WaiterSend ==
    /\ waiterPc = "send"
    /\ Send(retVal(0, "request timed out"))
    /\ waiterPc' = "done"
    /\ UNCHANGED <<ctxDone, doneChan, rawConn, senderPc, senderVal,
                   answer, dqRet, dqOthers>>

\* conn.Write([]byte(r.String())); it fails on a closed connection.
SenderWrite(ok) ==
    /\ senderPc = "write"
    /\ ok => rawConn = "open"
    /\ IF ok
       THEN senderPc' = "read" /\ UNCHANGED senderVal
       ELSE senderPc' = "send" /\ senderVal' = retVal(0, "write")
    /\ UNCHANGED <<dqPc, ctxDone, doneChan, retChan, rawConn, waiterPc,
                   answer, got, dqRet, delivered, dqOthers>>

\* The server answers (or hangs up).
ServerAnswers(a) ==
    /\ senderPc = "read"
    /\ answer = NoRetVal
    /\ answer' = a
    /\ UNCHANGED <<dqPc, ctxDone, doneChan, retChan, rawConn, waiterPc,
                   senderPc, senderVal, got, dqRet, delivered, dqOthers>>

\* ReadResponse(conn): blocks until the server has answered or the
\* connection is closed under it.
SenderRead ==
    /\ senderPc = "read"
    /\ \/ /\ rawConn = "closed"
          /\ senderVal' = retVal(0, "use of closed network connection")
       \/ /\ rawConn = "open"
          /\ answer # NoRetVal
          /\ senderVal' = answer
    /\ senderPc' = "send"
    /\ UNCHANGED <<dqPc, ctxDone, doneChan, retChan, rawConn, waiterPc,
                   answer, got, dqRet, delivered, dqOthers>>

\* retChan <- retVal{resp, err}
SenderSend ==
    /\ senderPc = "send"
    /\ Send(senderVal)
    /\ senderPc' = "done"
    /\ UNCHANGED <<ctxDone, doneChan, rawConn, waiterPc, senderVal,
                   answer, dqRet, dqOthers>>

Main == MainReceive \/ MainClose \/ MainReturn

Waiter == WaiterSelect \/ WaiterSend

Sender == (\E ok \in BOOLEAN : SenderWrite(ok)) \/ SenderRead \/ SenderSend

DoRequestNext ==
    \/ CtxCancel
    \/ \E ok \in BOOLEAN : Dial(ok)
    \/ \E a \in Answers : ServerAnswers(a)
    \/ Main
    \/ Waiter
    \/ Sender

DoRequestInit == Init /\ ~tlsNil /\ ~handlerNil

\* The scheduler runs every unit that can take a step.
DoRequestSpec ==
    /\ DoRequestInit
    /\ [][DoRequestNext]_vars
    /\ WF_vars(Main)
    /\ WF_vars(Waiter)
    /\ WF_vars(Sender)

\* ---------------------------------------------------------- StripPrefix

\* What no step of StripPrefix's handler touches.
spOthers == <<serverVars, routerVars, clientVars, doRequestVars, bandVars>>

\* Invoke h with Request rq.
InvokeH(rq) ==
    /\ hReq' = rq
    /\ hPath' = urlPath'[reqURL'[rq]]
    /\ hCalls' = hCalls + 1
    /\ spPc' = "handler"

\* StripPrefix(pre, h) is called, and a request for path arrives.
StripPrefixCall(pre, path) ==
    /\ spPc = "new"
    /\ stripPrefix' = pre
    /\ urlPath' = [urlPath EXCEPT ![reqURL[1]] = path]
    /\ spPc' = "idle"
    /\ UNCHANGED <<reqURL, hReq, hPath, hCalls, spWriter, spConn, spOthers>>

\* StripPrefix(prefix, h).ServeGemini(ctx, w, r), up to the call of h.
StripPrefix ==
    /\ spPc = "idle"
    /\ LET path == urlPath[reqURL[1]]
           p == TrimPrefix(path, stripPrefix)
           r2 == NewRequestAndURL
       IN  IF stripPrefix = << >>
           THEN /\ UNCHANGED <<urlPath, reqURL>>
                /\ InvokeH(1)
           ELSE IF Len(p) < Len(path)
           THEN /\ urlPath' = [u \in DOMAIN urlPath \cup {r2.url} |->
                                  IF u = r2.url THEN p ELSE urlPath[u]]
                /\ reqURL' = [r \in DOMAIN reqURL \cup {r2.req} |->
                                 IF r = r2.req THEN r2.url ELSE reqURL[r]]
                /\ InvokeH(r2.req)
           ELSE /\ spPc' = "done"
                /\ UNCHANGED <<urlPath, reqURL, hReq, hPath, hCalls>>
    /\ UNCHANGED <<stripPrefix, spWriter, spConn, spOthers>>

\* h assigns to the Path of the URL of the Request it was given.
HandlerSetsPath ==
    /\ spPc = "handler"
    /\ urlPath' = [urlPath EXCEPT ![reqURL[hReq]] = <<"x">>]
    /\ spPc' = "mutated"
    /\ UNCHANGED <<stripPrefix, reqURL, hReq, hPath, hCalls, spWriter, spConn,
                   spOthers>>

\* h answers and returns.
HandlerAnswers(statusCode) ==
    /\ spPc \in {"handler", "mutated"}
    /\ LET res == WriteStatus(spWriter, spConn, statusCode, "m")
       IN  spWriter' = res.w /\ spConn' = res.cn
    /\ spPc' = "done"
    /\ UNCHANGED <<stripPrefix, urlPath, reqURL, hReq, hPath, hCalls, spOthers>>

StripNext ==
    \/ \E pre \in StripStrings, path \in StripStrings :
           StripPrefixCall(pre, path)
    \/ StripPrefix
    \/ HandlerSetsPath
    \/ \E st \in {StatusSuccess, StatusNotFound} : HandlerAnswers(st)

StripInit == Init /\ ~tlsNil /\ ~handlerNil

StripSpec == StripInit /\ [][StripNext]_vars

\* ------------------------------------------------------------- Response

\* What no step on a Response touches.
bandOthers == <<serverVars, routerVars, clientVars, doRequestVars, stripVars>>

\* ReadResponse decodes a status line whose status is st.
ReadResponse(st) ==
    /\ bandPc = "new"
    /\ bandPc' = "decoded"
    /\ respStatus' = st
    /\ UNCHANGED <<bands, bandOthers>>

\* The six band predicates are called on the response.
CallBands ==
    /\ bandPc = "decoded"
    /\ bandPc' = "called"
    /\ bands' = {name \in BandNames : Band(name, respStatus)}
    /\ UNCHANGED <<respStatus, bandOthers>>

BandNext ==
    \/ \E st \in Statuses : ReadResponse(st)
    \/ CallBands

BandInit == Init /\ ~tlsNil /\ ~handlerNil

BandSpec == BandInit /\ [][BandNext]_vars

\* --------------------------------------------------------------- claims

Sent(c) == rwc[c].sent
Decoded(c) == req[c].err = "nil"
DecodeFailed(c) == req[c].err \notin {"unread", "nil"}

Min(a, b) == IF a < b THEN a ELSE b

RECURSIVE Pow2(_)
Pow2(n) == IF n = 0 THEN 1 ELSE 2 * Pow2(n - 1)

\* C1: when a handler panics with a value other than ErrAbortHandler before
\* anything was written, the status line 42 reaches the peer before the
\* connection is closed.
C1_PanicSendsCGIError ==
    \A c \in Conns :
        (connPc[c] = "done" /\ panicVal[c] = "other" /\ hcalls[c] = 0)
            => \E i \in StatusLines(Sent(c)) : Sent(c)[i][2] = StatusCGIError

\* C2: when a handler panics with ErrAbortHandler before anything was
\* written, nothing is logged, the engine does not call WriteStatus and the
\* writer still records nothing written.
C2_AbortForcesNothing ==
    \A c \in Conns :
        (connPc[c] = "done" /\ panicVal[c] = "ErrAbortHandler" /\ hcalls[c] = 0)
            => /\ ~logged[c]
               /\ forced[c] = 0
               /\ ~writer[c].hasWritten

\* C3: when the request decoded and the handler returned without panicking
\* (a nil Handler included), exactly one status line has been sent by the
\* time the connection is closed; when the handler wrote nothing it is
\* 51 "not found".
C3_OneStatusLine ==
    \A c \in Conns :
        (rwc[c].closed /\ Decoded(c) /\ panicVal[c] = "none")
            => /\ Cardinality(StatusLines(Sent(c))) = 1
               /\ hcalls[c] = 0 =>
                     Sent(c) = <<StatusLine(StatusNotFound, "not found")>>

C3_Witness ==
    \E c \in Conns :
        /\ connPc[c] = "done" /\ rwc[c].closed
        /\ Decoded(c) /\ panicVal[c] = "none"
        /\ ~handlerNil /\ handlerCalls[c] = 1 /\ hcalls[c] = 0
        /\ Sent(c) = <<StatusLine(StatusNotFound, "not found")>>

\* C4: on one connection at most one status line is sent and it precedes
\* every body byte; a WriteStatus call on a writer that has written leaves
\* the recorded status and meta as they are and sends nothing.
C4_StatusOnceAndFirst ==
    /\ [](\A c \in Conns :
            /\ Cardinality(StatusLines(Sent(c))) <= 1
            /\ BodyPositions(Sent(c)) # {} => IsStatusLine(Sent(c)[1]))
    /\ [][\A c \in Conns, sm \in HandlerStatuses :
            (HandlerWriteStatus(c, sm[1], sm[2]) /\ writer[c].hasWritten)
                => /\ writer'[c] = writer[c]
                   /\ rwc'[c] = rwc[c]]_vars

C4_Witness ==
    \E c \in Conns :
        /\ warned[c]
        /\ hcalls[c] >= 2
        /\ Cardinality(StatusLines(Sent(c))) = 1
        /\ BodyPositions(Sent(c)) # {}

\* C5: a Write on a writer that has written nothing sends the status line
\* 20 "text/gemini" and then the body bytes, and the writer records status
\* 20; a Write on a writer that has written sends the body bytes only.
C5_ImplicitSuccess ==
    [][\A c \in Conns, data \in HandlerData :
          HandlerWrite(c, data) =>
              IF ~writer[c].hasWritten
              THEN /\ Sent(c)' = Sent(c)
                          \o <<StatusLine(StatusSuccess, "text/gemini")>>
                          \o BodyBytes(data)
                   /\ writer'[c] = [writtenStatus |-> StatusSuccess,
                                    writtenMeta |-> "text/gemini",
                                    hasWritten |-> TRUE]
              ELSE /\ Sent(c)' = Sent(c) \o BodyBytes(data)
                   /\ writer'[c] = writer[c]]_vars

C5_Witness ==
    \E c \in Conns :
        /\ hcalls[c] = 2
        /\ writer[c].writtenStatus = StatusSuccess
        /\ Sent(c) = <<StatusLine(StatusSuccess, "text/gemini"),
                       <<"body", "x">>, <<"body", "x">>>>

\* C6: once a status outside the Success band [20,30) has been written, no
\* body byte is sent on the connection.
C6_NoBodyOutsideSuccess ==
    \A c \in Conns :
        (\E i \in StatusLines(Sent(c)) : Sent(c)[i][2] \notin SuccessBand)
            => BodyPositions(Sent(c)) = {}

\* C7: when decoding the request fails, the handler is never invoked, no
\* bytes are sent to the peer, and the connection is closed when serve ends.
C7_DecodeFailureSilent ==
    \A c \in Conns :
        DecodeFailed(c)
            => /\ handlerCalls[c] = 0
               /\ hcalls[c] = 0
               /\ Sent(c) = << >>
               /\ connPc[c] \in {"defer", "done"}
               /\ connPc[c] = "done" => rwc[c].closed

C7_Witness ==
    \E c \in Conns :
        /\ connPc[c] = "done"
        /\ req[c].err = "parse"
        /\ rwc[c].closed
        /\ forced[c] = 1
        /\ Sent(c) = << >>

\* Connection c has been served to its end: closed, and with one status
\* line when its request decoded and its handler returned.
Answered(c) ==
    /\ connPc[c] = "done"
    /\ rwc[c].closed
    /\ (Decoded(c) /\ panicVal[c] = "none")
           => Cardinality(StatusLines(Sent(c))) = 1

\* C8: Serve goes back to Accept without waiting for the connection it
\* handed to a goroutine: whatever the handlers of the other connections
\* do (hang, panic), Serve stays in its loop and every arriving connection
\* is accepted, decoded and answered, unless its own handler hangs.
C8_AcceptNeverWaits ==
    /\ [](servePc \in {"start", "accept"})
    /\ \A c \in Conns :
          (connPc[c] = "pending") ~> (connPc[c] = "hung" \/ Answered(c))

C8_Witness ==
    \E c1 \in Conns, c2 \in Conns :
        /\ connPc[c1] = "hung"
        /\ Answered(c2) /\ Decoded(c2) /\ panicVal[c2] = "none"
        /\ servePc = "accept"

\* C9: from a fresh Serve the k-th consecutive transient Accept error is
\* followed by a sleep of min(5ms * 2^(k-1), 1s), no sleep exceeds 1s, and
\* a non-transient Accept error makes Serve return it without retrying.
C9_Backoff ==
    /\ tempDelay <= MaxDelay
    /\ (servePc = "sleep" /\ run = nTransient)
           => tempDelay = Min(InitialDelay * Pow2(run - 1), MaxDelay)
    /\ lastAccept = "fatal"
           => servePc = "returned" /\ serveErr = "accept error"

C9_Witness ==
    /\ servePc = "sleep"
    /\ run = 9 /\ nTransient = 9
    /\ tempDelay = MaxDelay

\* C10: Serve returns only with a non-nil error, and the listener is closed
\* whenever Serve has returned.
C10_ReturnsErrorAndCloses ==
    servePc = "returned" => serveErr # "nil" /\ lClosed

C10_Witness ==
    /\ servePc = "returned"
    /\ serveErr = "accept error"
    /\ lClosed
    /\ nTransient > 0

\* ------------------------------------------------------- claims: router

\* The pattern a handler was registered with has a segment that begins
\* with ':'.
HasParam(p) == \E i \in 1..Len(p) : p[i] \in ColonNames

IsExactPattern(p) ==
    ~HasSuffix(p, <<"/">>) /\ ~HasSuffix(p, <<"/", ":rest">>)

IsSlashPattern(p) == HasSuffix(p, <<"/">>)

\* The segments of the request path at the positions where the pattern has
\* a parameter segment, in order.
RECURSIVE SegsAtParams(_, _)
SegsAtParams(psegs, segs) ==
    IF psegs = << >> \/ segs = << >> THEN << >>
    ELSE (IF Head(psegs) \in ColonNames THEN << <<Head(segs)>> >> ELSE << >>)
         \o SegsAtParams(Tail(psegs), Tail(segs))

\* C11: whatever else is registered and whatever RedirectSlash is, match on
\* the path identical to a pattern p registered without trailing slash
\* returns the handler registered for p, and no params when p has no
\* parameter segment.
C11_ExactPatternMatched ==
    \A h \in Registered :
        (h[1] = "Handle" /\ IsExactPattern(h[3])) =>
            \A b \in BOOLEAN :
                LET m == match(tree, h[2], h[3], b)
                IN  /\ m.handler = h
                    /\ ~HasParam(h[3]) => m.params = << >>

C11_Witness ==
    \E h \in Registered :
          /\ h[1] = "Handle" /\ IsExactPattern(h[3]) /\ ~HasParam(h[3])
          /\ tree[ensureNode(h[2], h[3])].slashHandler # Nil
          /\ match(tree, h[2], h[3], TRUE).handler = h
          /\ match(tree, h[2], h[3], FALSE).params = << >>

\* C12: when match returns the exact or slash handler of a pattern with
\* parameter segments, params are the segments of the request path at the
\* parameter positions of the pattern, left to right, and nothing else.
C12_ParamsArePathSegments ==
    \A path \in Paths :
        LET m == match(tree, << >>, path, RedirectSlash)
        IN  (m.slot \in {"handler", "slashHandler"} /\ HasParam(m.handler[3]))
            => m.params = SegsAtParams(CleanSegs(m.handler[3], << >>),
                                       CleanSegs(path, << >>))

C12_Witness ==
    LET m == match(tree, << >>, <<"/", "a", "/", "b">>, RedirectSlash)
    IN  /\ m.slot = "handler"
        /\ m.handler = HandlerFor(<< >>, <<"/", ":x", "/", ":x">>)
        /\ m.params = << <<"a">>, <<"b">> >>

\* The nodes at which the segments segs end when followed from node n,
\* through static and parameter children alike.
RECURSIVE EndNodes(_, _, _)
EndNodes(t, n, segs) ==
    IF n \notin DOMAIN t THEN {}
    ELSE IF segs = << >> THEN {n}
    ELSE EndNodes(t, Append(n, <<Head(segs)>>), Tail(segs))
         \cup EndNodes(t, Append(n, ParamEdge), Tail(segs))

\* The path ends at nodes of the tree, none of which holds an exact or a
\* slash handler.
EndsAtBareNode(path) ==
    LET ends == EndNodes(tree, << >>, CleanSegs(path, << >>))
    IN  /\ ends # {}
        /\ \A x \in ends : tree[x].handler = Nil /\ tree[x].slashHandler = Nil

\* match takes the path to have a trailing slash.
TrailingSlash(path) == HasSuffix(TrimPrefix(cleanPath(path), <<"/">>), <<"/">>)

Served(path) ==
    nodeServeGemini(tree, << >>, newResponseWriter, newConn, path,
                    RedirectSlash).cn.sent

\* C14: with redirects enabled, a node with a slash handler and no exact
\* handler answers its path without the trailing slash with status 30 and
\* meta = path + "/"; a node with an exact handler and no slash handler
\* answers its path with a trailing slash with status 30 and meta = the
\* path without that slash.
C14_SlashRedirects ==
    RedirectSlash =>
        \A h \in Registered :
            h[1] = "Handle" =>
                LET p == h[3]
                    x == ensureNode(h[2], p)
                    bare == TrimSuffix(p, <<"/">>)
                IN  /\ (IsSlashPattern(p) /\ tree[x].handler = Nil) =>
                           Served(bare) =
                               <<StatusLine(StatusRedirect, bare \o <<"/">>)>>
                    /\ (IsExactPattern(p) /\ tree[x].slashHandler = Nil) =>
                           Served(p \o <<"/">>) =
                               <<StatusLine(StatusRedirect, p)>>

\* Node a is node x or above it.
IsAbove(a, x) == Len(a) <= Len(x) /\ SubSeq(x, 1, Len(a)) = a

\* The path runs through node a and goes on for one segment or more.
Extends(path, a) ==
    LET segs == CleanSegs(path, << >>)
    IN  \E k \in 0..(Len(segs) - 1) :
            a \in EndNodes(tree, << >>, SubSeq(segs, 1, k))

\* No pattern but the catch-all of node a handles the path: the tree has
\* no other catch-all, and the path ends at no exact or slash handler.
OnlyCatchAll(path, a) ==
    /\ \A x \in DOMAIN tree : x # a => tree[x].catchAllHandler = Nil
    /\ \A x \in EndNodes(tree, << >>, CleanSegs(path, << >>)) :
           tree[x].handler = Nil /\ tree[x].slashHandler = Nil

\* C15 as stated: a path that extends the node of a catch-all by one or
\* more segments, handled by no other pattern, gives the catch-all handler
\* whatever RedirectSlash is.
C15_Original ==
    \A a \in DOMAIN tree, path \in Paths :
        (tree[a].catchAllHandler # Nil /\ Extends(path, a)
             /\ OnlyCatchAll(path, a))
        => match(tree, << >>, path, RedirectSlash).handler
               = tree[a].catchAllHandler

\* C15, amended: such a path gives the catch-all handler when
\* RedirectSlash is off or the path ends in a slash; with RedirectSlash on
\* (the default) and no trailing slash it gives the synthetic add-slash
\* redirect.
C15_CatchAllAfterSlash ==
    \A a \in DOMAIN tree, path \in Paths :
        (tree[a].catchAllHandler # Nil /\ Extends(path, a)
             /\ OnlyCatchAll(path, a))
        => match(tree, << >>, path, RedirectSlash).handler
               = IF RedirectSlash /\ ~TrailingSlash(path)
                 THEN HandlerFunc("redirectAddSlash")
                 ELSE tree[a].catchAllHandler

C15_Witness ==
    LET h == HandlerFor(<< >>, <<"/", "a", "/", ":rest">>)
    IN  /\ RedirectSlash
        /\ Registered = {h}
        /\ tree[<<<<"a">>>>].catchAllHandler = h
        /\ OnlyCatchAll(<<"/", "a", "/", "b", "/", "b">>, <<<<"a">>>>)
        /\ match(tree, << >>, <<"/", "a", "/", "b", "/", "b">>, TRUE).handler
               = HandlerFunc("redirectAddSlash")
        /\ match(tree, << >>, <<"/", "a", "/", "b", "/", "b", "/">>,
                 TRUE).handler = h

\* C16: for a node d below a node that holds a catch-all, with no catch-all
\* on d, below d, or between the two, every path dispatched through d that
\* gets no exact or slash handler and no synthetic redirect gets the
\* catch-all of the nearest ancestor that holds one, the path that ends at
\* d included.
C16_AncestorCatchAll ==
    \A d \in DOMAIN tree :
        LET up == NearestCatchAll(tree, d)
        IN  (/\ tree[up].catchAllHandler # Nil
             /\ \A x \in DOMAIN tree :
                    IsAbove(d, x) => tree[x].catchAllHandler = Nil)
            => \A path \in Paths :
                   LET m == match(tree, d, path, RedirectSlash)
                   IN  m.slot \notin {"handler", "slashHandler", "redirect"}
                       => m.handler = tree[up].catchAllHandler

\* The slot Handle(pattern, h) on the root aims at holds a handler.
Occupied(pattern) ==
    LET p == cleanPath(pattern)
        x == ensureNode(<< >>, p)
    IN  x \in DOMAIN tree /\ tree[x][SlotOf(p)] # Nil

\* C17: through every registration call a slot that holds a handler keeps
\* it; Handle and NotFound aiming at such a slot panic; and a panic leaves
\* the whole tree as it was.  Nothing but a registration call raises it.
C17_SlotsAssignedOnce ==
    [][/\ \A n \in DOMAIN tree, sl \in Slots :
              tree[n][sl] # Nil =>
                  n \in DOMAIN tree' /\ tree'[n][sl] = tree[n][sl]
       /\ \A pattern \in Patterns :
              (Occupied(pattern) /\ Handle(<< >>, pattern)) =>
                  regPanic' # NoPanic
       /\ (tree[<< >>].catchAllHandler # Nil /\ nodeNotFound(<< >>)) =>
              regPanic' # NoPanic
       /\ regPanic' # regPanic =>
              /\ tree' = tree
              /\ \/ \E pattern \in Patterns :
                        Occupied(pattern) /\ Handle(<< >>, pattern)
                 \/ tree[<< >>].catchAllHandler # Nil /\ nodeNotFound(<< >>)
      ]_vars

C17_Witness ==
    /\ regPanic = "overlapping handlers"
    /\ \E n \in DOMAIN tree : tree[n].slashHandler # Nil
    /\ Cardinality(Registered) = MaxRoutes

\* ------------------------------------------------------- claims: client

\* The last response was a redirect that DoContext could follow: its body
\* closed, its meta parsed, and the target a gemini URL.
RedirectedToGemini ==
    /\ issued > 0
    /\ IsRedirect(resp.status)
    /\ resp.closed /\ ret.err # "close"
    /\ urlParse(resp.meta).err = "nil"
    /\ cliReq.scheme = "gemini:"

\* C18: under the default policy DoContext never issues a 6th request, and
\* when every request was answered with a redirect to a gemini URL it
\* returns only after the 5th, with the 5th response and the error "too
\* many redirects".
C18_DefaultStopsAtFive ==
    CheckRedirect = "nil" =>
        /\ issued <= MaxVia
        /\ issued = MaxVia => cliPc = "returned"
        /\ (cliPc = "returned" /\ RedirectedToGemini) =>
               /\ issued = MaxVia
               /\ Len(reqs) = MaxVia
               /\ ret = Return(resp, "too many redirects")

C18_Witness ==
    /\ CheckRedirect = "nil"
    /\ cliPc = "returned"
    /\ RedirectedToGemini
    /\ issued = MaxVia
    /\ ret.err = "too many redirects"
    /\ ret.resp.status = StatusRedirect

C20_UnknownProtocol ==
    (issued > 0 /\ cliReq.scheme # "gemini:") =>
        /\ cliPc = "returned"
        /\ ret = Return(resp, ErrUnknownProtocol)
        /\ IsRedirect(resp.status)
        /\ policyErr = "none"
        /\ policyCalls = issued - 1
        /\ issued = Len(reqs)

C20_Witness ==
    /\ CheckRedirect = "reject"
    /\ cliPc = "returned"
    /\ cliReq.scheme = "http:"
    /\ ret.err = ErrUnknownProtocol
    /\ policyCalls = 0
    /\ issued = 1

\* The last doRequest gave a response (and no error).
Decodedresp == issued > 0 /\ resp # NilResponse

\* C21: when the decoded status is outside [10,70), DoContext returns the
\* response, its body open, with ErrUnknownStatus and follows no redirect;
\* when it is inside [10,70), DoContext does not return ErrUnknownStatus.
C21_UnknownStatus ==
    Decodedresp =>
        /\ (resp.status < StatusInput \/ resp.status >= statusSentinel) =>
               /\ cliPc = "returned"
               /\ ret = Return(resp, ErrUnknownStatus)
               /\ ~resp.closed
               /\ policyErr = "none"
        /\ (resp.status >= StatusInput /\ resp.status < statusSentinel) =>
               ret.err # ErrUnknownStatus

\* ---------------------------------------------------- claims: doRequest

\* doRequest has returned from an attempt whose dial succeeded.
ReturnedFromChannel == dqPc = "returned" /\ rawConn # "nil"

\* C22: doRequest returns the first retVal sent on retChan, whatever is
\* sent after it; when that retVal has no response the connection is
\* closed by the time doRequest returns, and when it has one the
\* connection is open.
C22_FirstOutcomeWins ==
    ReturnedFromChannel =>
        /\ delivered # << >>
        /\ dqRet = delivered[1]
        /\ dqRet.resp = 0 => rawConn = "closed"
        /\ dqRet.resp # 0 => rawConn = "open"

C22_Witness ==
    /\ ReturnedFromChannel
    /\ Len(delivered) = 2
    /\ delivered[1].resp = StatusSuccess
    /\ delivered[2].err = "request timed out"
    /\ dqRet = delivered[1]
    /\ rawConn = "open"

\* Both units of doRequest have run to their end (or were never started).
UnitsTerminated ==
    /\ waiterPc \in {"none", "done"}
    /\ senderPc \in {"none", "done"}

\* C23: once doRequest has returned, both units it started terminate; at
\* most two retVals are ever sent, and a unit that has reached its send
\* can always complete it.
C23_UnitsTerminate ==
    /\ [](Len(delivered) <= retChanCap)
    /\ []((waiterPc = "send" \/ senderPc = "send") =>
             (dqPc = "recv" \/ Len(retChan) < retChanCap))
    /\ (dqPc = "returned" ~> UnitsTerminated)

C23_Witness ==
    /\ ReturnedFromChannel
    /\ waiterPc = "done"
    /\ senderPc = "done"
    /\ Len(delivered) = 2
    /\ dqRet.err = "request timed out"

\* C24: a turn of the loop whose doRequest fails (the dial, the write, the
\* read or the decoding of the status line) ends DoContext with that
\* error and a nil response, and once DoContext has returned no doRequest
\* is called again.
C24_AttemptErrorEndsCall ==
    [][/\ \A out \in DoRequestResults :
              (out.err # "nil" /\ DoRequest(out, "nil")) =>
                  /\ cliPc' = "returned"
                  /\ ret' = Return(NilResponse, out.err)
                  /\ issued' = issued + 1
       /\ cliPc = "returned" => (issued' = issued /\ ret' = ret)]_vars

C24_Witness ==
    /\ cliPc = "returned"
    /\ issued = 3
    /\ Len(reqs) = 2
    /\ resp = NilResponse
    /\ ret = Return(NilResponse, "malformed status line")

\* -------------------------------------------------- claims: StripPrefix

\* The handler of StripPrefix has been called with a non-empty prefix.
StripServed == spPc \notin {"new", "idle"} /\ stripPrefix # << >>

\* C25: with a non-empty prefix, h is invoked exactly when the path of the
\* request starts with the prefix, with another Request and another URL
\* whose path is the request's path without the prefix; when the path
\* lacks the prefix nothing is written; and whatever h does with its
\* Request, the original Request keeps its URL and the URL its path.
C25_StripPrefix ==
    /\ [](StripServed =>
            LET path == urlPath[reqURL[1]]
            IN  /\ hCalls = 1 <=> HasPrefix(path, stripPrefix)
                /\ hCalls = 1 =>
                       /\ hReq # 1
                       /\ reqURL[hReq] # reqURL[1]
                       /\ stripPrefix \o hPath = path
                /\ hCalls = 0 =>
                       /\ hReq = 0
                       /\ spWriter = newResponseWriter
                       /\ spConn = newConn)
    /\ [][(spPc # "new" /\ stripPrefix # << >>) =>
             /\ reqURL'[1] = reqURL[1]
             /\ urlPath'[reqURL[1]] = urlPath[reqURL[1]]]_vars

C25_Witness ==
    /\ spPc = "done"
    /\ stripPrefix = <<"/", "a">>
    /\ urlPath[reqURL[1]] = <<"/", "a", "b">>
    /\ hCalls = 1
    /\ hPath = <<"b">>
    /\ urlPath[reqURL[hReq]] = <<"x">>
    /\ spWriter.hasWritten

\* ----------------------------------------------------- claims: Response

\* C26: a status in [10,70) satisfies exactly one of the six band
\* predicates, the one of its decade, and a status outside [10,70)
\* satisfies none.
C26_BandsPartition ==
    bandPc = "called" =>
        IF respStatus >= 10 /\ respStatus < 70
        THEN /\ Cardinality(bands) = 1
             /\ (respStatus < 20) = ("IsInput" \in bands)
             /\ (respStatus >= 20 /\ respStatus < 30) = ("IsSuccess" \in bands)
             /\ (respStatus >= 30 /\ respStatus < 40) = ("IsRedirect" \in bands)
             /\ (respStatus >= 40 /\ respStatus < 50) =
                    ("IsTemporaryFailure" \in bands)
             /\ (respStatus >= 50 /\ respStatus < 60) =
                    ("IsPermanentFailure" \in bands)
             /\ (respStatus >= 60) = ("IsCertificateRequired" \in bands)
        ELSE bands = {}

C26_Witness ==
    /\ bandPc = "called"
    /\ respStatus = 69
    /\ bands = {"IsCertificateRequired"}

\* ----------------------------------------------- claims: router, second

\* The exact and slash handlers that answer path below node n, through
\* static and parameter children alike, each with the params of its way.
RECURSIVE Routes(_, _, _, _, _)
Routes(t, n, path, hasSlash, params) ==
    IF n \notin DOMAIN t THEN {}
    ELSE IF path = << >>
    THEN IF hasSlash /\ t[n].slashHandler # Nil
         THEN {MatchResult(params, t[n].slashHandler, n, "slashHandler")}
         ELSE IF ~hasSlash /\ t[n].handler # Nil
         THEN {MatchResult(params, t[n].handler, n, "handler")}
         ELSE {}
    ELSE LET seg == pathSegment(path)
         IN  Routes(t, Append(n, seg[1]), seg[2], hasSlash, params)
             \cup Routes(t, Append(n, ParamEdge), seg[2], hasSlash,
                         Append(params, seg[1]))

\* What match makes of a request path: the path it walks and the flag.
Walked(path) == TrimPrefix(cleanPath(path), <<"/">>)

\* Below node n the literal child for the first segment of tp exists and
\* leads to no exact or slash handler for the rest, with or without the
\* trailing slash, and the parameter child leads to one.
OnlyThroughParam(n, tp, hasSlash) ==
    /\ tp # << >>
    /\ LET seg == pathSegment(tp)
       IN  /\ Append(n, seg[1]) \in DOMAIN tree
           /\ \A b \in BOOLEAN :
                  Routes(tree, Append(n, seg[1]), seg[2], b, << >>) = {}
           /\ Routes(tree, Append(n, ParamEdge), seg[2], hasSlash,
                     <<seg[1]>>) # {}

\* C27: when the literal child for the next segment exists and leads to no
\* exact or slash handler for the remaining path, and the parameter child
\* leads to one, match returns a handler reached through the parameter
\* child, with the segment captured, whatever RedirectSlash is.
C27_ParamAfterDeadEnd ==
    \A n \in DOMAIN tree, path \in Paths :
        LET tp == Walked(path)
            hasSlash == HasSuffix(tp, <<"/">>)
        IN  OnlyThroughParam(n, tp, hasSlash) =>
                matchImpl(tree, n, tp, RedirectSlash, hasSlash, << >>)
                    \in Routes(tree, Append(n, ParamEdge),
                               pathSegment(tp)[2], hasSlash,
                               <<pathSegment(tp)[1]>>)

\* Where the synthetic redirect that answers path sends the client.
RedirectTarget(path) ==
    IF match(tree, << >>, path, RedirectSlash).handler
           = HandlerFunc("redirectAddSlash")
    THEN cleanPath(path) \o <<"/">>
    ELSE TrimSuffix(cleanPath(path), <<"/">>)

\* C28: when match answers a path with a synthetic redirect, matching the
\* target of that redirect gives no synthetic redirect.
C28_RedirectsTerminate ==
    \A path \in Paths :
        match(tree, << >>, path, RedirectSlash).slot = "redirect" =>
            match(tree, << >>, RedirectTarget(path), RedirectSlash).slot
                # "redirect"

\* C29: whatever else is registered and whatever RedirectSlash is, match on
\* the path identical to a pattern registered with a trailing slash, the
\* pattern "/" included, returns the handler registered for it.
C29_SlashPatternMatched ==
    \A h \in Registered :
        (h[1] = "Handle" /\ IsSlashPattern(h[3])) =>
            \A b \in BOOLEAN : match(tree, h[2], h[3], b).handler = h

\* The order of preference at node x where the path is exhausted: the
\* handler and the slot it comes from.
Preferred(x, hasSlash, allowRedirect) ==
    IF hasSlash
    THEN IF tree[x].slashHandler # Nil
         THEN <<tree[x].slashHandler, "slashHandler">>
         ELSE IF allowRedirect /\ tree[x].handler # Nil
         THEN <<HandlerFunc("redirectRemoveSlash"), "redirect">>
         ELSE <<tree[x].catchAllHandler, "catchAllHandler">>
    ELSE IF tree[x].handler # Nil
         THEN <<tree[x].handler, "handler">>
         ELSE IF allowRedirect /\ tree[x].slashHandler # Nil
         THEN <<HandlerFunc("redirectAddSlash"), "redirect">>
         ELSE <<tree[x].catchAllHandler, "catchAllHandler">>

\* The node at which the segments segs end when followed from node n
\* through the literal child wherever there is one and through the
\* parameter child elsewhere: a set of one node, or of none.
RECURSIVE LiteralFirst(_, _, _)
LiteralFirst(t, n, segs) ==
    IF n \notin DOMAIN t THEN {}
    ELSE IF segs = << >> THEN {n}
    ELSE IF Append(n, <<Head(segs)>>) \in DOMAIN t
    THEN LiteralFirst(t, Append(n, <<Head(segs)>>), Tail(segs))
    ELSE LiteralFirst(t, Append(n, ParamEdge), Tail(segs))

UnmatchedAt(n, tp, allowRedirect, hasSlash) ==
    /\ tp # << >>
    /\ LET seg == pathSegment(tp)
       IN  /\ matchImpl(tree, Append(n, seg[1]), seg[2], allowRedirect,
                        hasSlash, << >>).handler = Nil
           /\ matchImpl(tree, Append(n, ParamEdge), seg[2], allowRedirect,
                        hasSlash, <<seg[1]>>).handler = Nil

\* C32: at a position where neither the literal nor the parameter child
\* yields a handler, with redirects enabled and a path without trailing
\* slash the result is the add-slash redirect (status 30, meta = path +
\* "/"), whether or not a catch-all exists on the parent chain; otherwise
\* it is the catch-all of the nearest node of the parent chain that holds
\* one.  With redirects enabled and no trailing slash, a catch-all that
\* match returns is that of the node where the path ends, never that of
\* an unmatched position.
C32_UnmatchedRedirectsFirst ==
    \A path \in Paths :
        LET tp == Walked(path)
            hasSlash == HasSuffix(tp, <<"/">>)
        IN  /\ \A n \in DOMAIN tree :
                   UnmatchedAt(n, tp, RedirectSlash, hasSlash) =>
                       LET m == matchImpl(tree, n, tp, RedirectSlash,
                                          hasSlash, << >>)
                       IN  IF RedirectSlash /\ ~hasSlash
                           THEN /\ m.handler = HandlerFunc("redirectAddSlash")
                                /\ m.slot = "redirect"
                                /\ n = << >> =>
                                       Served(path)
                                           = <<StatusLine(StatusRedirect,
                                                          path \o <<"/">>)>>
                           ELSE /\ m.slot = "catchAllHandler"
                                /\ m.handler
                                       = tree[NearestCatchAll(tree, n)]
                                             .catchAllHandler
            /\ (RedirectSlash /\ ~hasSlash) =>
                   LET m == match(tree, << >>, path, RedirectSlash)
                   IN  (m.slot = "catchAllHandler" /\ m.handler # Nil)
                           => Len(m.node) = Len(CleanSegs(path, << >>))

C32_Witness ==
    /\ RedirectSlash
    /\ Registered = {NotFoundHandler(<< >>)}
    /\ UnmatchedAt(<< >>, <<"b">>, TRUE, FALSE)
    /\ match(tree, << >>, <<"/", "b">>, RedirectSlash).handler
           = HandlerFunc("redirectAddSlash")
    /\ Served(<<"/", "b">>)
           = <<StatusLine(StatusRedirect, <<"/", "b", "/">>)>>
    /\ match(tree, << >>, <<"/", "b", "/">>, RedirectSlash).handler
           = NotFoundHandler(<< >>)

\* C33: with RedirectSlash disabled match returns no synthetic redirect:
\* for every path, the handler it returns, if any, is one that Handle or
\* NotFound stored in the tree, and serving the path sends no redirect.
C33_NoRedirectWhenDisabled ==
    ~RedirectSlash =>
        \A n \in DOMAIN tree, path \in Paths :
            LET m == match(tree, n, path, RedirectSlash)
            IN  /\ m.slot # "redirect"
                /\ m.handler \in Registered \cup {Nil}
                /\ n = << >> => Served(path) = << >>

C33_Witness ==
    /\ ~RedirectSlash
    /\ Registered # {}
    /\ \E path \in Paths :
           /\ match(tree, << >>, path, TRUE).slot = "redirect"
           /\ match(tree, << >>, path, RedirectSlash).handler = Nil
    /\ \E path \in Paths :
           /\ match(tree, << >>, path, TRUE).slot = "redirect"
           /\ match(tree, << >>, path, RedirectSlash).handler \in Registered

\* The segments of the request path at the parameter edges of the way from
\* the root to node x, in order.
RECURSIVE ParamsTo(_, _)
ParamsTo(x, segs) ==
    IF x = << >> \/ segs = << >> THEN << >>
    ELSE (IF Head(x) = ParamEdge THEN << <<Head(segs)>> >> ELSE << >>)
         \o ParamsTo(Tail(x), Tail(segs))

\* C34: when match returns a catch-all handler, params are the segments of
\* the path at the parameter segments traversed from the root to the node
\* that owns the catch-all, in traversal order, and nothing else.
C34_CatchAllParams ==
    \A path \in Paths :
        LET m == match(tree, << >>, path, RedirectSlash)
        IN  (m.slot = "catchAllHandler" /\ m.handler # Nil) =>
                m.params = ParamsTo(m.node, CleanSegs(path, << >>))

\* ------------------------------------------------- claims: sub-routers

\* Below node n both the literal child for the first segment of tp and
\* the parameter child lead to an exact or slash handler for the rest.
BothLead(n, tp, hasSlash) ==
    /\ tp # << >>
    /\ LET seg == pathSegment(tp)
       IN  /\ Routes(tree, Append(n, seg[1]), seg[2], hasSlash, << >>) # {}
           /\ Routes(tree, Append(n, ParamEdge), seg[2], hasSlash,
                     <<seg[1]>>) # {}

\* C31: when both the literal child and the parameter child of a node
\* lead to a registered handler for the remaining path, match returns a
\* handler reached through the literal child, and the segment is not
\* added to params.
C31_LiteralBeforeParam ==
    \A n \in DOMAIN tree, path \in Paths :
        LET tp == Walked(path)
            hasSlash == HasSuffix(tp, <<"/">>)
        IN  BothLead(n, tp, hasSlash) =>
                matchImpl(tree, n, tp, RedirectSlash, hasSlash, << >>)
                    \in Routes(tree, Append(n, pathSegment(tp)[1]),
                               pathSegment(tp)[2], hasSlash, << >>)

\* The node that the segments segs name below node n: the parameter child
\* for a segment that begins with ":", the literal child otherwise.
RECURSIVE NodeFor(_, _)
NodeFor(n, segs) ==
    IF segs = << >> THEN n
    ELSE NodeFor(Append(n, IF Head(segs) \in ColonNames THEN ParamEdge
                           ELSE <<Head(segs)>>),
                 Tail(segs))

\* The patterns Handle is given: those of the mux, and patterns with
\* ":rest" before the end or before a trailing slash.
RestPatterns ==
    Patterns \cup {<<"/", ":rest", "/", "a">>, <<"/", ":rest", "/", ":rest">>,
                   <<"/", "a", "/", ":rest", "/">>, <<"/", ":rest", "/">>,
                   <<":rest">>}

AnyHandler == HandlerFunc("h")

\* What n.Handle(pattern, h) is to do to the tree: the nodes of the
\* segments exist afterwards, none for the ":rest" of a pattern that ends
\* in "/:rest", and such a pattern fills the catch-all slot of the node
\* before it or panics.
HandlesRest(n, pattern) ==
    LET cp == cleanPath(pattern)
        segs == CleanSegs(cp, << >>)
        hasRest == HasSuffix(cp, <<"/", ":rest">>)
        target == NodeFor(n, IF hasRest THEN SubSeq(segs, 1, Len(segs) - 1)
                             ELSE segs)
        made == [x \in DOMAIN tree
                       \cup {SubSeq(target, 1, k) : k \in Len(n)..Len(target)}
                    |-> IF x \in DOMAIN tree THEN tree[x] ELSE newNode]
        o == HandleOn(tree, n, pattern, AnyHandler)
    IN  /\ DOMAIN o.tree = DOMAIN made
        /\ hasRest =>
               o = IF made[target].catchAllHandler = Nil
                   THEN Outcome([made EXCEPT ![target].catchAllHandler
                                                 = AnyHandler], NoPanic)
                   ELSE Outcome(made, "overlapping catchAllHandlers")

\* C35: Handle with a pattern ending in "/:rest" stores the
\* handler in the catch-all slot of the node for the pattern without that
\* segment and creates no node for ":rest"; NotFound(h) on a node has the
\* effect of Handle("/:rest", h) on it; a ":name" segment in any other
\* position creates or reuses the single parameter child.
C35_RestMarksCatchAll ==
    \A n \in DOMAIN tree :
        /\ \A pattern \in RestPatterns : HandlesRest(n, pattern)
        /\ NotFoundOn(tree, n, AnyHandler)
               = HandleOn(tree, n, <<"/", ":rest">>, AnyHandler)

\* The prefixes Route is given and the patterns registered through the
\* router it returns.  Every pattern but the empty one begins with a
\* slash: a name written directly after the last name of the prefix would
\* make one longer name of the two.
RoutePrefixes ==
    {<< >>, <<"/">>, <<"/", "a">>, <<"a">>, <<"/", "a", "/">>, <<"/", ":x">>,
     <<"/", "a", "/", ":x">>, <<"/", "a", "/", "..">>, <<"/", ":rest">>,
     <<"/", "a", "/", ":rest">>, <<"/", "a", "/", ":rest", "/">>}

SubPatterns ==
    MountPatterns \cup {<<"/", ":rest">>, <<"/", "a", "/", ":x">>,
                        <<"/", ":rest", "/", "a">>, << >>,
                        <<"/", ".">>, <<"/", "..">>, <<"/", "..", "/", "a">>}

\* Registering pattern through the router that n.Route(prefix, fn) hands
\* out does to the tree, and so to every later match, what registering
\* prefix + pattern on n does.
SameAsPrefixed(n, prefix, pattern) ==
    LET r == RouteOn(tree, n, prefix)
    IN  HandleOn(r.tree, r.node, pattern, AnyHandler)
            = HandleOn(r.tree, n, prefix \o pattern, AnyHandler)

\* C36 as stated: for every prefix and every pattern, registering the
\* pattern through the router of Route(prefix, fn) has the effect of
\* registering prefix + pattern on the router Route was called on.
C36_Original ==
    \A n \in Routers, prefix \in RoutePrefixes, pattern \in SubPatterns :
        SameAsPrefixed(n, prefix, pattern)

\* The last segment of the prefix is ":rest".
EndsInRest(prefix) ==
    LET segs == CleanSegs(prefix, << >>)
    IN  segs # << >> /\ segs[Len(segs)] = ":rest"

\* The pattern begins with a slash and has no "." or ".." segment.
Rooted(pattern) ==
    /\ pattern # << >>
    /\ Head(pattern) = "/"
    /\ \A i \in 1..Len(pattern) : pattern[i] \notin {".", ".."}

\* C36, amended: this holds for every prefix whose last segment is not
\* ":rest" and every pattern that begins with "/" and has no "." or ".."
\* segment.
C36_SubRouterIsPrefix ==
    \A n \in Routers, prefix \in RoutePrefixes, pattern \in SubPatterns :
        (~EndsInRest(prefix) /\ Rooted(pattern)) =>
            SameAsPrefixed(n, prefix, pattern)

C36_Witness ==
    \E n \in Routers \ {<< >>} :
        /\ Append(n, <<"a">>) \in DOMAIN tree
        /\ tree[Append(n, <<"a">>)].slashHandler
               = HandlerFor(n, <<"/", "a", "/">>)
        /\ tree[n].slashHandler = HandlerFor(n, <<"/">>)
        /\ \E prefix \in MountPrefixes :
               /\ RouteOn(tree, << >>, prefix).node = n
               /\ HandleOn(tree, n, <<"/", "a">>, AnyHandler)
                      = HandleOn(tree, << >>, prefix \o <<"/", "a">>,
                                 AnyHandler)
               /\ HandleOn(tree, n, <<"/", "a">>, AnyHandler)
                      .tree[Append(n, <<"a">>)].handler = AnyHandler

\* ------------------------------------------------ claims: server, second

\* The order of serve on connection c: the handler is invoked at most
\* once and only on a decoded request, and serve ends with the connection
\* closed.
DecodeThenHandleThenClose(c) ==
    /\ handlerCalls[c] <= 1
    /\ handlerCalls[c] = 1 => Decoded(c)
    /\ connPc[c] \in {"handler", "hung", "after"} => Decoded(c)
    /\ rwc[c].closed => connPc[c] \in {"defer", "done"}
    /\ connPc[c] = "done" => rwc[c].closed

\* Nothing is done with the closed connection c: no write through the
\* writer, no second Close.
QuietOnceClosed(c) ==
    rwc[c].closed =>
        /\ writer'[c] = writer[c]
        /\ warned'[c] = warned[c]
        /\ forced'[c] = forced[c]
        /\ rwc'[c] = rwc[c]

\* C37: every accepted connection is decoded, then, only if decoding
\* succeeded, handed to the handler once, then closed; the handler is
\* never invoked before decoding succeeded, nothing is written to the
\* connection after it has been closed, and serve ends with the connection
\* closed on every path: normal return, decode error, panic.
C37_DecodeHandleClose ==
    /\ [](\A c \in Conns : DecodeThenHandleThenClose(c))
    /\ [][\A c \in Conns : QuietOnceClosed(c)]_vars

\* C40: the accept backoff applies per run of failures: the k-th transient
\* Accept error since the last successful Accept (or since Serve started)
\* is followed by a sleep of min(5ms * 2^(k-1), 1s), so that the first
\* one after a successful Accept sleeps 5ms again.
C40_BackoffPerRun ==
    servePc = "sleep" =>
        tempDelay = Min(InitialDelay * Pow2(run - 1), MaxDelay)

\* ------------------------------------------------ claims: client, second

\* C38: during DoContext at most one connection is open at any time;
\* before a redirect is followed the body of the previous response, and
\* with it its connection, is closed; when DoContext has returned, a
\* connection is open exactly when it returned a response whose body is
\* not closed.
C38_OneConnection ==
    /\ peakConns <= 1
    /\ openConns \in {0, 1}
    /\ (cliPc = "loop" /\ issued > 0) =>
           /\ IsRedirect(resp.status)
           /\ resp.closed
           /\ openConns = 0
    /\ cliPc = "returned" =>
           (openConns = 1 <=> (ret.resp # NilResponse /\ ~ret.resp.closed))

C38_Witness ==
    /\ cliPc = "returned"
    /\ issued = 3
    /\ peakConns = 1
    /\ openConns = 1
    /\ ret.err = "nil"
    /\ IsSuccess(ret.resp.status)

\* The directory of a path: the path up to and including its last slash.
DirOf(p) ==
    LET cuts == {i \in 0..Len(p) : i = 0 \/ p[i] = "/"}
        last == CHOOSE i \in cuts : \A j \in cuts : j <= i
    IN  SubSeq(p, 1, last)

\* Where the meta of a redirect leads from the URL cur: an absolute meta
\* is the URL itself, a rooted path replaces the path of cur, any other
\* path is taken in the directory of cur.
Target(cur, meta) ==
    IF meta[1] \in Schemes
    THEN [scheme |-> meta[1], path |-> Tail(meta)]
    ELSE [scheme |-> cur.scheme,
          path |-> IF meta[1] = "/" THEN meta ELSE DirOf(cur.path) \o meta]

\* The last turn of the loop went past url.Parse of a redirect's meta.
Redirected ==
    /\ issued > 0
    /\ Len(reqs) = issued
    /\ IsRedirect(resp.status)
    /\ urlParse(resp.meta).err = "nil"

\* C39: in a chain of redirects the meta of each redirect is resolved
\* against the URL of the request that received it, the last of reqs, and
\* not against the URL DoContext was called with: an absolute meta replaces
\* the URL, a relative one is resolved against the current URL.
C39_ResolvedAgainstCurrent ==
    Redirected => cliReq = Target(reqs[Len(reqs)], resp.meta)

\* The second redirect of a chain is relative and its request lies in
\* another directory than the first: the first URL would give another
\* target.
C39_Witness ==
    /\ Redirected
    /\ cliPc = "loop"
    /\ Len(reqs) = 2
    /\ resp.meta = <<"b">>
    /\ reqs[1].path = <<"/", "a">>
    /\ reqs[2].path = <<"/", "d", "/", "a">>
    /\ cliReq = [scheme |-> "gemini:", path |-> <<"/", "d", "/", "b">>]
    /\ cliReq # Target(reqs[1], resp.meta)

====
